---------------------------- MODULE Spec2Model ----------------------------
(***************************************************************************)
(* A model of the AION interpreter (src/aion): the schema validator, the   *)
(* task registry, the task handlers and the sequential pipeline executor   *)
(* AIONInterpreter.execute.                                                *)
(*                                                                         *)
(* JSON-shaped values are tagged records, so that values of different      *)
(* Python types are different TLA+ values that can still be compared:      *)
(*   S(s) a str, N(n) an int, NullV None, L(q) a list, D(q) a dict.        *)
(* A dict keeps its insertion order (as Python's does): it is a sequence   *)
(* of <<key, value>> pairs with distinct keys.                             *)
(***************************************************************************)
EXTENDS Integers, Sequences, FiniteSets, TLC

VARIABLES
    handlers,        \* TaskRegistry._handlers: kind -> handler
    metadata,        \* TaskRegistry._metadata: kind -> metadata
    reqOrder,        \* iteration order of the set {"field","operator","value"}
    pc,              \* position of the execute call
    program,         \* execute's argument program
    input,           \* execute's argument input_data (NoInput when omitted)
    data,            \* execute's local data
    logs,            \* execute's local logs
    errors,          \* execute's local errors
    execution_plan,  \* execute's local execution_plan
    idx,             \* the loop index i of execute
    result,          \* the ExecutionResult returned (NoResult while running)
    verrs,           \* the list validate_program returned to this call
    calls,           \* history: the handler invocations of this call
    files,           \* the files written by export_task so far
    nextId,          \* the next fresh table instance
    runs,            \* the execute calls that have returned, oldest first
    other_handlers   \* TaskRegistry._handlers of a second AIONInterpreter

vars == <<handlers, metadata, reqOrder, pc, program, input, data, logs,
          errors, execution_plan, idx, result, verrs, calls, files, nextId,
          runs, other_handlers>>

-----------------------------------------------------------------------------
(* Bounds of the model.                                                    *)

MaxPipe == 2

-----------------------------------------------------------------------------
(* JSON values.                                                            *)

S(s) == [ty |-> "str", s |-> s]

N(n) == [ty |-> "num", n |-> n]

NullV == [ty |-> "null"]

L(q) == [ty |-> "list", items |-> q]

D(q) == [ty |-> "dict", d |-> q]

IsStr(v) == v.ty = "str"

IsDict(v) == v.ty = "dict"

IsList(v) == v.ty = "list"

\* k in d for a dict d
Has(d, k) == \E j \in DOMAIN d.d : d.d[j][1] = k

\* d[k] for a dict d that has k
Get(d, k) == d.d[CHOOSE j \in DOMAIN d.d : d.d[j][1] = k][2]

\* d.get(k, default)
GetOr(d, k, default) == IF Has(d, k) THEN Get(d, k) ELSE default

-----------------------------------------------------------------------------
(* Strings.                                                                *)

RECURSIVE Concat(_)
\* "".join(q) for a sequence of strings
Concat(q) == IF q = <<>> THEN "" ELSE Head(q) \o Concat(Tail(q))

\* t in s for strings
Contains(s, t) ==
    \E j \in 1..(Len(s) - Len(t) + 1) : SubSeq(s, j, j + Len(t) - 1) = t

LowerChar(c) ==
    CASE c = "A" -> "a" [] c = "B" -> "b" [] c = "C" -> "c" [] c = "D" -> "d"
      [] c = "E" -> "e" [] c = "F" -> "f" [] c = "G" -> "g" [] c = "H" -> "h"
      [] c = "I" -> "i" [] c = "J" -> "j" [] c = "K" -> "k" [] c = "L" -> "l"
      [] c = "M" -> "m" [] c = "N" -> "n" [] c = "O" -> "o" [] c = "P" -> "p"
      [] c = "Q" -> "q" [] c = "R" -> "r" [] c = "S" -> "s" [] c = "T" -> "t"
      [] c = "U" -> "u" [] c = "V" -> "v" [] c = "W" -> "w" [] c = "X" -> "x"
      [] c = "Y" -> "y" [] c = "Z" -> "z" [] OTHER -> c

\* str.lower()
Lower(s) == Concat([j \in 1..Len(s) |-> LowerChar(SubSeq(s, j, j))])

-----------------------------------------------------------------------------
(* The schema validator (src/aion/core/validators.py).                     *)

ValidationError(path, message) == [path |-> path, message |-> message]

valid_task_types ==
    {"filter", "sort", "transform", "model_call", "aggregate", "export"}

\* The text of f"{self.valid_task_types}". Python prints a set in its hash
\* order, which differs between processes; the text is kept in one order.
ValidTypesRepr ==
    "{'filter', 'sort', 'transform', 'model_call', 'aggregate', 'export'}"

\* The orders in which for field in {"field", "operator", "value"} can
\* iterate: a str's hash, and so the set's order, is fixed per process.
RequiredFieldOrders ==
    { <<"field", "operator", "value">>, <<"field", "value", "operator">>,
      <<"operator", "field", "value">>, <<"operator", "value", "field">>,
      <<"value", "field", "operator">>, <<"value", "operator", "field">> }

\* a variant that reports the first missing field only
MissingFieldErrorsFirstOnly(condition, path, order) ==
    LET missing == SelectSeq(order, LAMBDA field : ~Has(condition, field)) IN
    IF missing = <<>> THEN <<>>
    ELSE <<ValidationError(path \o ".condition." \o Head(missing),
               "Condition must have '" \o Head(missing) \o "' field")>>

RECURSIVE MissingFieldErrors(_, _, _)
MissingFieldErrors(condition, path, order) ==
    IF order = <<>> THEN <<>>
    ELSE (IF ~Has(condition, Head(order))
          THEN <<ValidationError(path \o ".condition." \o Head(order),
                     "Condition must have '" \o Head(order) \o "' field")>>
          ELSE <<>>)
         \o MissingFieldErrors(condition, path, Tail(order))

_validate_filter_task(task, path, order) ==
    IF ~Has(task, "condition")
    THEN <<ValidationError(path \o ".condition",
                           "Filter task must have a 'condition' field")>>
    ELSE IF ~IsDict(Get(task, "condition"))
    THEN <<ValidationError(path \o ".condition",
                           "Condition must be a dictionary")>>
    ELSE MissingFieldErrors(Get(task, "condition"), path, order)

_validate_sort_task(task, path) ==
    IF ~Has(task, "operation")
    THEN <<ValidationError(path \o ".operation",
                           "Sort task must have an 'operation' field")>>
    ELSE IF ~IsDict(Get(task, "operation"))
    THEN <<ValidationError(path \o ".operation",
                           "Operation must be a dictionary")>>
    ELSE LET operation == Get(task, "operation") IN
         (IF ~Has(operation, "field")
          THEN <<ValidationError(path \o ".operation.field",
                                 "Sort operation must have a 'field'")>>
          ELSE <<>>)
         \o
         (IF Has(operation, "order")
             /\ Get(operation, "order") \notin {S("asc"), S("desc")}
          THEN <<ValidationError(path \o ".operation.order",
                                 "Sort order must be 'asc' or 'desc'")>>
          ELSE <<>>)

_validate_transform_task(task, path) ==
    IF ~Has(task, "mapping")
    THEN <<ValidationError(path \o ".mapping",
                           "Transform task must have a 'mapping' field")>>
    ELSE IF ~IsDict(Get(task, "mapping"))
    THEN <<ValidationError(path \o ".mapping",
                           "Mapping must be a dictionary")>>
    ELSE <<>>

_validate_model_call_task(task, path) ==
    IF ~Has(task, "prompt")
    THEN <<ValidationError(path \o ".prompt",
                           "Model call task must have 'prompt' field")>>
    ELSE <<>>

\* _validate_aggregate_task that also rejects an empty group_by and empty
\* aggregations
_validate_aggregate_taskRejectsEmpty(task, path) ==
    IF ~Has(task, "group_by")
    THEN <<ValidationError(path \o ".group_by",
                           "Aggregate task must have 'group_by' field")>>
    ELSE IF ~IsList(Get(task, "group_by"))
              \/ Get(task, "group_by") = L(<<>>)
    THEN <<ValidationError(path \o ".group_by",
                           "Group by must be a list of fields")>>
    ELSE IF ~Has(task, "aggregations")
    THEN <<ValidationError(path \o ".aggregations",
                           "Aggregate task must have 'aggregations' field")>>
    ELSE IF ~IsDict(Get(task, "aggregations"))
              \/ Get(task, "aggregations") = D(<<>>)
    THEN <<ValidationError(path \o ".aggregations",
                           "Aggregations must be a dictionary")>>
    ELSE <<>>

_validate_aggregate_task(task, path) ==
    IF ~Has(task, "group_by")
    THEN <<ValidationError(path \o ".group_by",
                           "Aggregate task must have 'group_by' field")>>
    ELSE IF ~IsList(Get(task, "group_by"))
    THEN <<ValidationError(path \o ".group_by",
                           "Group by must be a list of fields")>>
    ELSE IF ~Has(task, "aggregations")
    THEN <<ValidationError(path \o ".aggregations",
                           "Aggregate task must have 'aggregations' field")>>
    ELSE IF ~IsDict(Get(task, "aggregations"))
    THEN <<ValidationError(path \o ".aggregations",
                           "Aggregations must be a dictionary")>>
    ELSE <<>>

\* a variant that compares the format as written
_validate_export_taskCaseSensitive(task, path) ==
    IF ~Has(task, "file_path")
    THEN <<ValidationError(path \o ".file_path",
                           "Export task must have 'file_path' field")>>
    ELSE (IF ~IsStr(Get(task, "file_path"))
          THEN <<ValidationError(path \o ".file_path",
                                 "File path must be a string")>>
          ELSE <<>>)
         \o
         (IF ~Has(task, "format") THEN <<>>
          ELSE IF ~IsStr(Get(task, "format"))
          THEN <<ValidationError(path \o ".format",
                                 "Format must be a string")>>
          ELSE IF Get(task, "format").s
                      \notin {"csv", "json", "excel", "parquet"}
          THEN <<ValidationError(path \o ".format",
                     "Format must be one of: csv, json, excel, parquet")>>
          ELSE <<>>)

_validate_export_task(task, path) ==
    IF ~Has(task, "file_path")
    THEN <<ValidationError(path \o ".file_path",
                           "Export task must have 'file_path' field")>>
    ELSE (IF ~IsStr(Get(task, "file_path"))
          THEN <<ValidationError(path \o ".file_path",
                                 "File path must be a string")>>
          ELSE <<>>)
         \o
         (IF ~Has(task, "format") THEN <<>>
          ELSE IF ~IsStr(Get(task, "format"))
          THEN <<ValidationError(path \o ".format",
                                 "Format must be a string")>>
          ELSE IF Lower(Get(task, "format").s)
                      \notin {"csv", "json", "excel", "parquet"}
          THEN <<ValidationError(path \o ".format",
                     "Format must be one of: csv, json, excel, parquet")>>
          ELSE <<>>)

\* a variant that checks a task of unknown kind as a filter
_validate_taskUnknownAsFilter(task, path, order) ==
    IF ~IsDict(task)
    THEN <<ValidationError(path, "Task must be a dictionary")>>
    ELSE IF ~Has(task, "task")
    THEN <<ValidationError(path \o ".task", "Task must have a 'task' field")>>
    ELSE IF ~IsStr(Get(task, "task"))
    THEN <<ValidationError(path \o ".task", "Task type must be a string")>>
    ELSE LET task_type == Get(task, "task").s IN
         (IF task_type \notin valid_task_types
          THEN <<ValidationError(path \o ".task",
                     "Unknown task type: " \o task_type
                         \o ". Valid types: " \o ValidTypesRepr)>>
          ELSE <<>>)
         \o
         (CASE task_type = "sort" -> _validate_sort_task(task, path)
            [] task_type = "transform" -> _validate_transform_task(task, path)
            [] task_type = "model_call" -> _validate_model_call_task(task, path)
            [] task_type = "aggregate" -> _validate_aggregate_task(task, path)
            [] task_type = "export" -> _validate_export_task(task, path)
            [] OTHER -> _validate_filter_task(task, path, order))

\* a variant that goes on after a missing or ill-typed task field, with the
\* checks of a filter
_validate_taskNoEarlyReturn(task, path, order) ==
    IF ~IsDict(task)
    THEN <<ValidationError(path, "Task must be a dictionary")>>
    ELSE IF ~Has(task, "task")
    THEN <<ValidationError(path \o ".task", "Task must have a 'task' field")>>
             \o _validate_filter_task(task, path, order)
    ELSE IF ~IsStr(Get(task, "task"))
    THEN <<ValidationError(path \o ".task", "Task type must be a string")>>
             \o _validate_filter_task(task, path, order)
    ELSE LET task_type == Get(task, "task").s IN
         (IF task_type \notin valid_task_types
          THEN <<ValidationError(path \o ".task",
                     "Unknown task type: " \o task_type
                         \o ". Valid types: " \o ValidTypesRepr)>>
          ELSE <<>>)
         \o
         (CASE task_type = "filter" -> _validate_filter_task(task, path, order)
            [] task_type = "sort" -> _validate_sort_task(task, path)
            [] task_type = "transform" -> _validate_transform_task(task, path)
            [] task_type = "model_call" -> _validate_model_call_task(task, path)
            [] task_type = "aggregate" -> _validate_aggregate_task(task, path)
            [] task_type = "export" -> _validate_export_task(task, path)
            [] OTHER -> <<>>)

_validate_task(task, path, order) ==
    IF ~IsDict(task)
    THEN <<ValidationError(path, "Task must be a dictionary")>>
    ELSE IF ~Has(task, "task")
    THEN <<ValidationError(path \o ".task", "Task must have a 'task' field")>>
    ELSE IF ~IsStr(Get(task, "task"))
    THEN <<ValidationError(path \o ".task", "Task type must be a string")>>
    ELSE LET task_type == Get(task, "task").s IN
         (IF task_type \notin valid_task_types
          THEN <<ValidationError(path \o ".task",
                     "Unknown task type: " \o task_type
                         \o ". Valid types: " \o ValidTypesRepr)>>
          ELSE <<>>)
         \o
         (CASE task_type = "filter" -> _validate_filter_task(task, path, order)
            [] task_type = "sort" -> _validate_sort_task(task, path)
            [] task_type = "transform" -> _validate_transform_task(task, path)
            [] task_type = "model_call" -> _validate_model_call_task(task, path)
            [] task_type = "aggregate" -> _validate_aggregate_task(task, path)
            [] task_type = "export" -> _validate_export_task(task, path)
            [] OTHER -> <<>>)

RECURSIVE ValidateTasksShortCircuit(_, _, _)
\* a variant of the loop that stops at the first task with errors
ValidateTasksShortCircuit(pipeline, j, order) ==
    IF j > Len(pipeline) THEN <<>>
    ELSE LET task_errors ==
                 _validate_task(pipeline[j],
                                "pipeline[" \o ToString(j - 1) \o "]", order)
         IN IF task_errors # <<>> THEN task_errors
            ELSE ValidateTasksShortCircuit(pipeline, j + 1, order)

RECURSIVE ValidateTasks(_, _, _)
\* The loop of validate_program over tasks j..len(pipeline) (1-based here;
\* the path carries the 0-based index).
ValidateTasks(pipeline, j, order) ==
    IF j > Len(pipeline) THEN <<>>
    ELSE _validate_task(pipeline[j],
                        "pipeline[" \o ToString(j - 1) \o "]", order)
         \o ValidateTasks(pipeline, j + 1, order)

\* a variant that reports a missing pipeline like one that is not a list
validate_programOnePath(prog, order) ==
    IF ~Has(prog, "pipeline") \/ ~IsList(Get(prog, "pipeline"))
    THEN <<ValidationError("pipeline", "Pipeline must be a list of tasks")>>
    ELSE ValidateTasks(Get(prog, "pipeline").items, 1, order)

validate_program(prog, order) ==
    IF ~Has(prog, "pipeline")
    THEN <<ValidationError("root", "Program must contain a 'pipeline' field")>>
    ELSE IF ~IsList(Get(prog, "pipeline"))
    THEN <<ValidationError("pipeline", "Pipeline must be a list of tasks")>>
    ELSE ValidateTasks(Get(prog, "pipeline").items, 1, order)

-----------------------------------------------------------------------------
(* Tables (pandas DataFrames): an instance id, the column names in order   *)
(* and the rows in order, each row a function from column name to value.   *)

Table(id, cols, rows) == [id |-> id, cols |-> cols, rows |-> rows]

Range(q) == {q[j] : j \in DOMAIN q}

\* DataFrame.empty: no columns or no rows
IsEmpty(t) == Len(t.cols) = 0 \/ Len(t.rows) = 0

\* c in data.columns
HasCol(t, c) == c \in Range(t.cols)

\* DataFrame.__setitem__ with one value per row: an existing column keeps
\* its place, a new one is appended
SetCol(t, c, vals) ==
    [t EXCEPT !.cols = IF HasCol(t, c) THEN @ ELSE Append(@, c),
              !.rows = [j \in DOMAIN t.rows |->
                           [k \in DOMAIN t.rows[j] \cup {c} |->
                               IF k = c THEN vals[j] ELSE t.rows[j][k]]]]

\* DataFrame.drop(columns=[c])
DropCol(t, c) ==
    [t EXCEPT !.cols = SelectSeq(@, LAMBDA k : k # c),
              !.rows = [j \in DOMAIN t.rows |->
                           [k \in DOMAIN t.rows[j] \ {c} |-> t.rows[j][k]]]]

\* What a handler returns: a table, or the message of the exception it
\* raised; wrote are the files and directories it created on the way.
Ok(t, wrote) == [ok |-> TRUE, table |-> t, wrote |-> wrote]

Raise(msg, wrote) == [ok |-> FALSE, msg |-> msg, wrote |-> wrote]

-----------------------------------------------------------------------------
(* str() and repr() of values.                                             *)

RECURSIVE Repr(_)
RECURSIVE ReprItems(_)
RECURSIVE ReprPairs(_)
\* repr(v)
Repr(v) ==
    CASE v.ty = "str" -> "'" \o v.s \o "'"
      [] v.ty = "num" -> ToString(v.n)
      [] v.ty = "null" -> "None"
      [] v.ty = "list" -> "[" \o ReprItems(v.items) \o "]"
      [] v.ty = "dict" -> "{" \o ReprPairs(v.d) \o "}"

ReprItems(q) ==
    IF q = <<>> THEN ""
    ELSE Repr(Head(q)) \o (IF Len(q) > 1 THEN ", " ELSE "")
         \o ReprItems(Tail(q))

ReprPairs(q) ==
    IF q = <<>> THEN ""
    ELSE "'" \o Head(q)[1] \o "': " \o Repr(Head(q)[2])
         \o (IF Len(q) > 1 THEN ", " ELSE "") \o ReprPairs(Tail(q))

\* str(v)
Str(v) == IF v.ty = "str" THEN v.s ELSE Repr(v)

-----------------------------------------------------------------------------
(* Ordering of cell values.                                                *)

\* The characters of the model's strings in code point order.
Alphabet ==
    " '()-.0123456789:ABCDEFGHIJKLMNOPQRSTUVWXYZ[]_abcdefghijklmnopqrstuvwxyz"

CharRank(c) == CHOOSE j \in 1..Len(Alphabet) : SubSeq(Alphabet, j, j) = c

RECURSIVE StrLess(_, _)
\* s < t for strings
StrLess(s, t) ==
    IF t = "" THEN FALSE
    ELSE IF s = "" THEN TRUE
    ELSE LET a == CharRank(SubSeq(s, 1, 1))
             b == CharRank(SubSeq(t, 1, 1))
         IN IF a # b THEN a < b
            ELSE StrLess(SubSeq(s, 2, Len(s)), SubSeq(t, 2, Len(t)))

\* whether Python can order the two values
Comparable(x, y) == x.ty = y.ty /\ x.ty \in {"str", "num"}

\* x < y for two comparable values
Less(x, y) == IF x.ty = "num" THEN x.n < y.n ELSE StrLess(x.s, y.s)

\* type(v).__name__
TypeName(v) ==
    CASE v.ty = "str" -> "str" [] v.ty = "num" -> "int"
      [] v.ty = "null" -> "NoneType" [] v.ty = "list" -> "list"
      [] v.ty = "dict" -> "dict"

\* the column holds numbers only (an int64 column)
IsNumCol(t, c) == \A j \in DOMAIN t.rows : t.rows[j][c].ty = "num"

-----------------------------------------------------------------------------
(* filter_task (src/aion/tasks/filter.py).                                 *)

\* the keys of op_map
OpMapKeys ==
    {"==", "!=", ">", ">=", "<", "<=", "in", "not in",
     "contains", "startswith", "endswith"}

\* op_func(x, value) for one cell x and an ordering operator
OrderHolds(op, x, value) ==
    CASE op = ">" -> Less(value, x)
      [] op = ">=" -> ~Less(x, value)
      [] op = "<" -> Less(x, value)
      [] op = "<=" -> ~Less(value, x)

\* x.str.<op>(y) for one string cell x; the pattern y is taken literally
\* (str.contains reads it as a regular expression)
StrOpHolds(op, x, y) ==
    CASE op = "contains" -> Contains(x, y)
      [] op = "startswith" -> Len(y) <= Len(x) /\ SubSeq(x, 1, Len(y)) = y
      [] op = "endswith" ->
             Len(y) <= Len(x) /\ SubSeq(x, Len(x) - Len(y) + 1, Len(x)) = y

\* mask = op_func(df[field], value): the mask, or the exception pandas
\* raises (its text is that of pandas 2)
FilterMask(df, c, op, value) ==
    LET cell(j) == df.rows[j][c]
        mask(P(_)) == [ok |-> TRUE, mask |-> [j \in DOMAIN df.rows |-> P(j)]]
        fail(msg) == [ok |-> FALSE, msg |-> msg]
        eq(j) == cell(j) = value
        ne(j) == cell(j) # value
        ord(j) == OrderHolds(op, cell(j), value)
        isin(j) == cell(j) \in Range(value.items)
        notin(j) == cell(j) \notin Range(value.items)
        strop(j) == StrOpHolds(op, cell(j).s, value.s)
    IN CASE op = "==" -> mask(eq)
         [] op = "!=" -> mask(ne)
         [] op \in {">", ">=", "<", "<="} ->
                IF \A j \in DOMAIN df.rows : Comparable(cell(j), value)
                THEN mask(ord)
                ELSE IF IsNumCol(df, c)
                THEN fail("Invalid comparison between dtype=int64 and "
                              \o TypeName(value))
                ELSE fail("'" \o op \o "' not supported between instances of '"
                              \o TypeName(cell(1)) \o "' and '"
                              \o TypeName(value) \o "'")
         [] op \in {"in", "not in"} ->
                IF ~IsList(value)
                THEN fail("only list-like objects are allowed to be passed to "
                              \o "isin(), you passed a " \o TypeName(value))
                ELSE IF op = "in" THEN mask(isin) ELSE mask(notin)
         [] op \in {"contains", "startswith", "endswith"} ->
                IF IsNumCol(df, c)
                THEN fail("Can only use .str accessor with string values!")
                ELSE mask(strop)

\* filter_task that looks up operator and field before the emptiness test
filter_taskChecksFirst(df, task, fresh) ==
    LET condition == Get(task, "condition")
        field == Get(condition, "field")
        op_str == Get(condition, "operator")
        value == Get(condition, "value")
    IN IF ~(IsStr(op_str) /\ op_str.s \in OpMapKeys)
       THEN Raise("Unsupported operator: " \o Str(op_str), {})
       ELSE IF ~(IsStr(field) /\ HasCol(df, field.s))
       THEN Raise("Field '" \o Str(field) \o "' not found in data", {})
       ELSE IF IsEmpty(df) THEN Ok(df, {})
       ELSE LET m == FilterMask(df, field.s, op_str.s, value)
            IN IF ~m.ok THEN Raise(m.msg, {})
               ELSE LET keep == SelectSeq([j \in DOMAIN df.rows |-> j],
                                          LAMBDA j : m.mask[j])
                    IN Ok(Table(fresh, df.cols,
                                [k \in DOMAIN keep |-> df.rows[keep[k]]]),
                          {})

\* filter_task that looks for the field before it looks at the operator
filter_taskFieldFirst(df, task, fresh) ==
    IF IsEmpty(df) THEN Ok(df, {})
    ELSE LET condition == Get(task, "condition")
             field == Get(condition, "field")
             op_str == Get(condition, "operator")
             value == Get(condition, "value")
         IN IF ~(IsStr(field) /\ HasCol(df, field.s))
            THEN Raise("Field '" \o Str(field) \o "' not found in data", {})
            ELSE IF ~(IsStr(op_str) /\ op_str.s \in OpMapKeys)
            THEN Raise("Unsupported operator: " \o Str(op_str), {})
            ELSE LET m == FilterMask(df, field.s, op_str.s, value)
                 IN IF ~m.ok THEN Raise(m.msg, {})
                    ELSE LET keep == SelectSeq([j \in DOMAIN df.rows |-> j],
                                               LAMBDA j : m.mask[j])
                         IN Ok(Table(fresh, df.cols,
                                     [k \in DOMAIN keep |-> df.rows[keep[k]]]),
                               {})

filter_task(df, task, fresh) ==
    IF IsEmpty(df) THEN Ok(df, {})
    ELSE LET condition == Get(task, "condition")
             field == Get(condition, "field")
             op_str == Get(condition, "operator")
             value == Get(condition, "value")
         IN IF op_str.ty \in {"list", "dict"}
            THEN Raise("unhashable type: '" \o TypeName(op_str) \o "'", {})
            ELSE IF ~(IsStr(op_str) /\ op_str.s \in OpMapKeys)
            THEN Raise("Unsupported operator: " \o Str(op_str), {})
            ELSE IF field.ty \in {"list", "dict"}
            THEN Raise("unhashable type: '" \o TypeName(field) \o "'", {})
            ELSE IF ~(IsStr(field) /\ HasCol(df, field.s))
            THEN Raise("Field '" \o Str(field) \o "' not found in data", {})
            ELSE LET m == FilterMask(df, field.s, op_str.s, value)
                 IN IF ~m.ok THEN Raise(m.msg, {})
                    ELSE LET keep == SelectSeq([j \in DOMAIN df.rows |-> j],
                                               LAMBDA j : m.mask[j])
                         IN Ok(Table(fresh, df.cols,
                                     [k \in DOMAIN keep |-> df.rows[keep[k]]]),
                               {})

-----------------------------------------------------------------------------
(* sort_task (src/aion/tasks/sort.py).                                     *)

RECURSIVE SortRows(_, _, _)
\* DataFrame.sort_values(by=key, ascending=ascending) on the rows: rows
\* with equal keys keep their order (for the short columns of the model
\* numpy's sort is an insertion sort; pandas sorts the reversed column and
\* reverses the outcome when descending)
SortRows(rows, key, ascending) ==
    IF rows = <<>> THEN <<>>
    ELSE LET init == SortRows(SubSeq(rows, 1, Len(rows) - 1), key, ascending)
             last == rows[Len(rows)]
             before(x, y) == IF ascending THEN Less(x[key], y[key])
                             ELSE Less(y[key], x[key])
             n == Cardinality({j \in DOMAIN init : ~before(last, init[j])})
         IN SubSeq(init, 1, n) \o <<last>> \o SubSeq(init, n + 1, Len(init))

sort_task(df, task, fresh) ==
    IF IsEmpty(df) THEN Ok(df, {})
    ELSE LET operation == Get(task, "operation")
             field == Get(operation, "field")
             order == GetOr(operation, "order", S("asc"))
         IN IF field.ty \in {"list", "dict"}
            THEN Raise("unhashable type: '" \o TypeName(field) \o "'", {})
            ELSE IF ~(IsStr(field) /\ HasCol(df, field.s))
            THEN Raise("Field '" \o Str(field) \o "' not found in data", {})
            ELSE Ok(Table(fresh, df.cols,
                          SortRows(df.rows, field.s, Lower(order.s) = "asc")),
                    {})

-----------------------------------------------------------------------------
(* transform_task (src/aion/tasks/transform.py).                           *)

Whitespace == {" ", "\t", "\n", "\r"}

\* field.strip() == ""
StripsToEmpty(f) == \A j \in 1..Len(f) : SubSeq(f, j, j) \in Whitespace

HasChar(f, c) == \E j \in 1..Len(f) : SubSeq(f, j, j) = c

\* the is_literal test of a string concat item that names no column
is_literal(f) ==
    \/ StripsToEmpty(f)
    \/ Len(f) <= 3
    \/ (Len(f) >= 1 /\ SubSeq(f, 1, 1) = " ")
    \/ (Len(f) >= 1 /\ SubSeq(f, Len(f), Len(f)) = " ")
    \/ HasChar(f, "(")
    \/ HasChar(f, ")")
    \/ HasChar(f, "-")
    \/ HasChar(f, ":")

\* the first concat item the validation loop rejects (0 when none)
FirstRejected(df, items) ==
    LET bad == {j \in DOMAIN items :
                   /\ IsStr(items[j])
                   /\ ~HasCol(df, items[j].s)
                   /\ ~is_literal(items[j].s)}
    IN IF bad = {} THEN 0 ELSE CHOOSE j \in bad : \A k \in bad : j <= k

\* ItemText with the literal test taken before the column test
ItemTextLiteralFirst(df, item, j) ==
    IF IsStr(item)
    THEN (IF is_literal(item.s) \/ ~HasCol(df, item.s) THEN item.s
          ELSE Str(df.rows[j][item.s]))
    ELSE Str(item)

\* the text one concat item adds to row j
ItemText(df, item, j) ==
    IF IsStr(item)
    THEN (IF HasCol(df, item.s) THEN Str(df.rows[j][item.s]) ELSE item.s)
    ELSE Str(item)

\* the column built by the Concatenate loop
ConcatColumn(df, items) ==
    [j \in DOMAIN df.rows |->
        S(Concat([k \in DOMAIN items |-> ItemText(df, items[k], j)]))]

RECURSIVE TransformEntries(_, _, _, _)
\* The loop over mapping.items(): df is the table the task received, res
\* the copy being written, remove the set fields_to_remove. Returns the
\* loop's outcome: [ok, res, remove] or [ok, msg].
TransformEntries(df, entries, res, remove) ==
    IF entries = <<>> THEN [ok |-> TRUE, res |-> res, remove |-> remove]
    ELSE LET new_field == Head(entries)[1]
             source == Head(entries)[2]
             rest == Tail(entries)
             fail(msg) == [ok |-> FALSE, msg |-> msg]
         IN CASE IsStr(source) ->
                   IF HasCol(df, source.s)
                   THEN TransformEntries(df, rest,
                            SetCol(res, new_field,
                                   [j \in DOMAIN df.rows |->
                                       df.rows[j][source.s]]),
                            remove \cup {source.s})
                   ELSE fail("Source field '" \o source.s
                                 \o "' not found in data")
              [] IsDict(source) ->
                   IF ~Has(source, "concat")
                   THEN fail("Unknown transformation: " \o Repr(source))
                   ELSE LET fields_to_concat == Get(source, "concat") IN
                        IF ~IsList(fields_to_concat)
                        THEN fail("concat must be a list of fields")
                        ELSE LET items == fields_to_concat.items
                                 r == FirstRejected(df, items)
                             IN IF r # 0
                                THEN fail("Field '" \o items[r].s
                                              \o "' not found in data")
                                ELSE TransformEntries(df, rest,
                                         SetCol(res, new_field,
                                                ConcatColumn(df, items)),
                                         remove)
              [] IsList(source) ->
                   \* pandas takes a list as the column's values
                   IF Len(source.items) # Len(df.rows)
                   THEN fail("Length of values ("
                                 \o ToString(Len(source.items))
                                 \o ") does not match length of index ("
                                 \o ToString(Len(df.rows)) \o ")")
                   ELSE TransformEntries(df, rest,
                            SetCol(res, new_field, source.items), remove)
              [] OTHER ->
                   TransformEntries(df, rest,
                       SetCol(res, new_field,
                              [j \in DOMAIN df.rows |-> source]),
                       remove)

RECURSIVE DropAll(_, _)
\* the loop dropping fields_to_remove
DropAll(t, remove) ==
    IF remove = {} THEN t
    ELSE LET f == CHOOSE c \in remove : TRUE
         IN DropAll(IF HasCol(t, f) THEN DropCol(t, f) ELSE t, remove \ {f})

\* transform_task with every entry reading the table written so far
transform_taskLive(df, task, fresh) ==
    IF IsEmpty(df) THEN Ok(df, {})
    ELSE LET RECURSIVE Live(_, _, _)
             Live(cur, entries, remove) ==
                 IF entries = <<>>
                 THEN [ok |-> TRUE, res |-> cur, remove |-> remove]
                 ELSE LET one == TransformEntries(cur, <<Head(entries)>>,
                                                  cur, remove)
                      IN IF one.ok
                         THEN Live(one.res, Tail(entries), one.remove)
                         ELSE one
             out == Live(Table(fresh, df.cols, df.rows),
                         Get(task, "mapping").d, {})
         IN IF out.ok THEN Ok(DropAll(out.res, out.remove), {})
            ELSE Raise(out.msg, {})

\* transform_task returning a copy of its input when an entry fails
transform_taskSwallows(df, task, fresh) ==
    IF IsEmpty(df) THEN Ok(df, {})
    ELSE LET out == TransformEntries(df, Get(task, "mapping").d,
                                     Table(fresh, df.cols, df.rows), {})
         IN IF out.ok THEN Ok(DropAll(out.res, out.remove), {})
            ELSE Ok(Table(fresh, df.cols, df.rows), {})

transform_task(df, task, fresh) ==
    IF IsEmpty(df) THEN Ok(df, {})
    ELSE LET mapping == Get(task, "mapping")
             out == TransformEntries(df, mapping.d,
                                     Table(fresh, df.cols, df.rows), {})
         IN IF out.ok THEN Ok(DropAll(out.res, out.remove), {})
            ELSE Raise(out.msg, {})

-----------------------------------------------------------------------------
(* aggregate_task (src/aion/tasks/aggregate.py).                           *)

\* the first item of a list that names no column (0 when none)
FirstMissing(df, names) ==
    LET bad == {j \in DOMAIN names :
                   ~(IsStr(names[j]) /\ HasCol(df, names[j].s))}
    IN IF bad = {} THEN 0 ELSE CHOOSE j \in bad : \A k \in bad : j <= k

RECURSIVE TupleLess(_, _)
\* x < y for two tuples of cell values
TupleLess(x, y) ==
    IF x = <<>> THEN FALSE
    ELSE IF Less(Head(x), Head(y)) THEN TRUE
    ELSE IF Less(Head(y), Head(x)) THEN FALSE
    ELSE TupleLess(Tail(x), Tail(y))

RECURSIVE SortedKeys(_)
\* the group keys in ascending order (groupby sorts its keys)
SortedKeys(keys) ==
    IF keys = {} THEN <<>>
    ELSE LET least == CHOOSE k \in keys :
                          \A o \in keys : ~TupleLess(o, k)
         IN <<least>> \o SortedKeys(keys \ {least})

RECURSIVE SumNums(_)
SumNums(q) == IF q = <<>> THEN 0 ELSE Head(q).n + SumNums(Tail(q))

\* one aggregation function of pandas over the cells of a group; the
\* model knows the functions sum, count, min and max
AggCells(func, cells) ==
    CASE func = "count" -> N(Len(cells))
      [] func = "sum" ->
             IF \A j \in DOMAIN cells : cells[j].ty = "num"
             THEN N(SumNums(cells))
             ELSE S(Concat([j \in DOMAIN cells |-> cells[j].s]))
      [] func = "min" ->
             CHOOSE c \in Range(cells) : \A o \in Range(cells) : ~Less(o, c)
      [] func = "max" ->
             CHOOSE c \in Range(cells) : \A o \in Range(cells) : ~Less(c, o)

\* data.groupby(group_by).agg(aggregations).reset_index()
GroupAgg(df, group_by, aggregations, fresh) ==
    LET gcols == [j \in DOMAIN group_by |-> group_by[j].s]
        acols == [j \in DOMAIN aggregations |-> aggregations[j][1]]
        keyOf(row) == [j \in DOMAIN gcols |-> row[gcols[j]]]
        keys == SortedKeys({keyOf(df.rows[j]) : j \in DOMAIN df.rows})
        members(k) == SelectSeq(df.rows, LAMBDA row : keyOf(row) = k)
        cellsOf(k, c) == [j \in DOMAIN members(k) |-> members(k)[j][c]]
        funcOf(c) ==
            aggregations[CHOOSE j \in DOMAIN aggregations :
                             aggregations[j][1] = c][2].s
        outRow(k) ==
            [c \in Range(gcols) \cup Range(acols) |->
                IF c \in Range(gcols)
                THEN k[CHOOSE j \in DOMAIN gcols : gcols[j] = c]
                ELSE AggCells(funcOf(c), cellsOf(k, c))]
    IN Table(fresh, gcols \o acols, [j \in DOMAIN keys |-> outRow(keys[j])])

aggregate_task(df, task, fresh) ==
    IF IsEmpty(df) THEN Ok(df, {})
    ELSE LET group_by == GetOr(task, "group_by", L(<<>>))
             aggregations == GetOr(task, "aggregations", D(<<>>))
             g == FirstMissing(df, group_by.items)
             akeys == [j \in DOMAIN aggregations.d |->
                          S(aggregations.d[j][1])]
             a == FirstMissing(df, akeys)
         IN IF group_by.items = <<>>
            THEN Raise("Aggregate task must specify 'group_by' fields", {})
            ELSE IF aggregations.d = <<>>
            THEN Raise("Aggregate task must specify 'aggregations'", {})
            ELSE IF g # 0
            THEN Raise("Group by field '" \o Str(group_by.items[g])
                           \o "' not found in data", {})
            ELSE IF a # 0
            THEN Raise("Aggregation field '" \o akeys[a].s
                           \o "' not found in data", {})
            ELSE Ok(GroupAgg(df, group_by.items, aggregations.d, fresh), {})

-----------------------------------------------------------------------------
(* export_task (src/aion/tasks/export.py).                                 *)

\* os.path.dirname
Dirname(path) ==
    LET slashes == {j \in 1..Len(path) : SubSeq(path, j, j) = "/"}
        i == IF slashes = {} THEN 0
             ELSE CHOOSE j \in slashes : \A k \in slashes : k <= j
        head == SubSeq(path, 1, i)
        other == {j \in 1..i : SubSeq(path, j, j) # "/"}
        n == IF other = {} THEN i
             ELSE CHOOSE j \in other : \A k \in other : k <= j
    IN SubSeq(head, 1, n)

DirEntry(path) == [kind |-> "dir", path |-> path]

\* the file data.to_<format>(file_path) writes; the writers themselves
\* are pandas'
FileEntry(path, format, df) ==
    [kind |-> "file", path |-> path, format |-> format,
     cols |-> df.cols, rows |-> df.rows]

export_task(df, task, fresh) ==
    IF IsEmpty(df) THEN Ok(df, {})
    ELSE LET file_path == GetOr(task, "file_path", NullV)
             file_format == GetOr(task, "format", S("csv"))
         IN IF file_path = NullV \/ file_path = S("")
            THEN Raise("Export task must specify 'file_path'", {})
            ELSE IF Dirname(file_path.s) = ""
            \* os.makedirs("") raises FileNotFoundError
            THEN Raise("[Errno 2] No such file or directory: ''", {})
            ELSE IF Lower(file_format.s)
                        \in {"csv", "json", "excel", "parquet"}
            THEN Ok(df, {DirEntry(Dirname(file_path.s)),
                         FileEntry(file_path.s, Lower(file_format.s), df)})
            ELSE Raise("Unsupported export format: " \o file_format.s,
                       {DirEntry(Dirname(file_path.s))})

-----------------------------------------------------------------------------
(* model_call_task (src/aion/tasks/model_call.py).                         *)

\* simulate_call that leaves the input text out
simulate_callPromptOnly(prompt, input_text) == "[AI: " \o prompt \o "]"

\* ModelCallHandler.simulate_call
simulate_call(prompt, input_text) == "[AI: " \o prompt \o "] " \o input_text

\* One row's output. The process runs without OPENAI_API_KEY and
\* ANTHROPIC_API_KEY: call_openai and call_anthropic raise, and the row
\* loop renders the fault.
RowOutput(provider, prompt, input_text) ==
    IF provider = S("openai")
    THEN "[Error: OPENAI_API_KEY environment variable not set]"
    ELSE IF provider = S("anthropic")
    THEN "[Error: ANTHROPIC_API_KEY environment variable not set]"
    ELSE simulate_call(Str(prompt), input_text)

model_call_task(df, task, fresh) ==
    IF IsEmpty(df) THEN Ok(df, {})
    ELSE LET prompt == Get(task, "prompt")
             input_field == GetOr(task, "input_field", NullV)
             output_field == GetOr(task, "output_field", S("model_output"))
             provider == GetOr(task, "provider", S("simulate"))
             copy == Table(fresh, df.cols, df.rows)
         IN IF IsStr(input_field) /\ HasCol(df, input_field.s)
            THEN Ok(SetCol(copy, output_field.s,
                           [j \in DOMAIN df.rows |->
                               S(RowOutput(provider, prompt,
                                           Str(df.rows[j][input_field.s])))]),
                    {})
            ELSE Ok(SetCol(copy, output_field.s,
                           [j \in DOMAIN df.rows |->
                               S("[AI: " \o Str(prompt) \o "]")]), {})

-----------------------------------------------------------------------------
(* The task registry (src/aion/core/registry.py) and the handlers that can *)
(* be registered.                                                          *)

\* Python's None: an omitted input_data, the data of a rejected run, the
\* answer of get_handler for an unknown kind
None == NullV

\* a handler: a function object, named
Fn(name) == [fn |-> name]

\* The registry AIONInterpreter.__init__ builds (_register_default_tasks)
DefaultHandler ==
    [k \in valid_task_types |->
        CASE k = "filter" -> Fn("filter_task")
          [] k = "sort" -> Fn("sort_task")
          [] k = "transform" -> Fn("transform_task")
          [] k = "model_call" -> Fn("model_call_task")
          [] k = "aggregate" -> Fn("aggregate_task")
          [] k = "export" -> Fn("export_task")]

\* Handlers a caller registers: one that returns a new table with one more
\* column, one that raises
custom_ok(df, task, fresh) ==
    Ok(SetCol(Table(fresh, df.cols, df.rows), "seen",
              [j \in DOMAIN df.rows |-> N(1)]), {})

custom_fail(df, task, fresh) == Raise("boom", {})

\* The register calls a caller makes, as <<task_type, handler>>: a default
\* kind is overwritten, a kind the validator does not know is added.
\* register does not check its handler argument, None included.
Registrations ==
    { <<"sort", Fn("custom_ok")>>, <<"sort", Fn("custom_fail")>>,
      <<"sort", None>>, <<"foobar", Fn("custom_ok")>> }

\* get_handler that finds nothing
get_handlerFindsNothing(reg, task_type) == None

\* TaskRegistry.get_handler
get_handler(reg, task_type) ==
    IF task_type \in DOMAIN reg THEN reg[task_type] ELSE None

\* handler(data, task)
CallHandler(h, df, task, fresh) ==
    CASE h.fn = "filter_task" -> filter_task(df, task, fresh)
      [] h.fn = "sort_task" -> sort_task(df, task, fresh)
      [] h.fn = "transform_task" -> transform_task(df, task, fresh)
      [] h.fn = "model_call_task" -> model_call_task(df, task, fresh)
      [] h.fn = "aggregate_task" -> aggregate_task(df, task, fresh)
      [] h.fn = "export_task" -> export_task(df, task, fresh)
      [] h.fn = "custom_ok" -> custom_ok(df, task, fresh)
      [] h.fn = "custom_fail" -> custom_fail(df, task, fresh)

-----------------------------------------------------------------------------
(* The programs and input tables execute is called with.                   *)

Task(kind, fields) == D(<< <<"task", S(kind)>> >> \o fields)

Condition(field, operator, value) ==
    D(<< <<"field", S(field)>>, <<"operator", S(operator)>>,
         <<"value", value>> >>)

FilterGt == Task("filter", << <<"condition", Condition("a", ">", N(1))>> >>)

FilterMissing ==
    Task("filter", << <<"condition", Condition("nonexistent", ">", N(30))>> >>)

SortDesc ==
    Task("sort", << <<"operation",
                      D(<< <<"field", S("a")>>, <<"order", S("desc")>> >>)>> >>)

TransformRename ==
    Task("transform", << <<"mapping", D(<< <<"c", S("a")>> >>)>> >>)

ExportCsv ==
    Task("export", << <<"file_path", S("out/f.csv")>>, <<"format", S("csv")>> >>)

ModelCall ==
    Task("model_call", << <<"prompt", S("P")>>, <<"input_field", S("b")>> >>)

AggregateNoGroup ==
    Task("aggregate", << <<"group_by", L(<<>>)>>,
                         <<"aggregations", D(<< <<"a", S("sum")>> >>)>> >>)

FilterNoCondition == Task("filter", <<>>)

FilterPartial ==
    Task("filter", << <<"condition", D(<< <<"field", S("a")>> >>)>> >>)

UnknownKind == Task("foobar", << <<"some_config", S("value")>> >>)

ValidTasks ==
    {FilterGt, FilterMissing, SortDesc, TransformRename, ExportCsv, ModelCall,
     AggregateNoGroup}

MalformedTasks == {FilterNoCondition, FilterPartial, UnknownKind}

Tasks == ValidTasks \cup MalformedTasks

Pipelines == UNION {[1..n -> Tasks] : n \in 0..MaxPipe}

Program(pipeline) == D(<< <<"pipeline", pipeline>> >>)

\* Single tasks that probe the validator's checks one by one.
AggregateProbes ==
    { Task("aggregate", <<>>),
      Task("aggregate", << <<"group_by", S("b")>>,
                           <<"aggregations", L(<<>>)>> >>),
      Task("aggregate", << <<"group_by", S("b")>>,
                           <<"aggregations", D(<< <<"a", S("sum")>> >>)>> >>),
      Task("aggregate", << <<"group_by", L(<<S("b")>>)>> >>),
      Task("aggregate", << <<"group_by", L(<<S("b")>>)>>,
                           <<"aggregations", D(<< <<"a", S("sum")>> >>)>> >>) }
        \cup { Task("aggregate", << <<"group_by", L(g)>>,
                                    <<"aggregations", D(a)>> >>) :
                 g \in {<<>>, <<S("b")>>, <<S("zz")>>},
                 a \in {<<>>, << <<"a", S("sum")>> >>,
                        << <<"zz", S("sum")>> >>} }

UnknownKindProbes ==
    { Task("Filter", << <<"condition", Condition("a", ">", N(1))>> >>),
      Task("", <<>>),
      Task("sorted", << <<"operation", S("a")>> >>) }

NotAMappingProbes == {S("filter"), N(1), NullV, L(<<S("filter")>>)}

NoTaskFieldProbes ==
    { D(<<>>),
      D(<< <<"condition", S("a")>> >>),
      D(<< <<"kind", S("filter")>> >>) }

KindNotAStringProbes ==
    { D(<< <<"task", N(1)>> >>),
      D(<< <<"task", NullV>>, <<"condition", S("a")>> >>),
      D(<< <<"task", L(<<S("filter")>>)>> >>),
      D(<< <<"task", D(<<>>)>> >>) }

\* a model_call without prompt, and prompts that are no strings
ModelCallProbes ==
    {Task("model_call", << <<"input_field", S("b")>> >>)}
        \cup { Task("model_call", << <<"prompt", v>> >>) :
                 v \in {N(42), NullV, L(<<S("P")>>),
                        D(<< <<"text", S("P")>> >>)} }

ConditionSubkeys == {"field", "operator", "value"}

\* a condition holding exactly the subkeys of present, in the usual order
PartialCondition(present) ==
    D(SelectSeq(<< <<"field", S("a")>>, <<"operator", S(">")>>,
                   <<"value", N(1)>> >>,
                LAMBDA kv : kv[1] \in present))

\* conditions that are no objects, and objects lacking subkeys
FilterProbes ==
    { Task("filter", << <<"condition", v>> >>) :
        v \in {S("a > 1"), N(1), NullV, L(<<S("a"), S(">"), N(1)>>)} }
        \cup { Task("filter", << <<"condition", PartialCondition(present)>> >>) :
                 present \in (SUBSET ConditionSubkeys) \ {ConditionSubkeys} }

ExportWithFormat(format) ==
    Task("export", << <<"file_path", S("out/f")>>, <<"format", format>> >>)

ExportProbes ==
    { ExportWithFormat(format) :
        format \in { S("CSV"), S("json"), S("Excel"), S("parquet"), S("xml"),
                     S(""), S("csv "), S("JSONL"), N(1), NullV,
                     L(<<S("csv")>>) } }
        \cup { Task("export", << <<"file_path", S("out/f")>> >>),
               Task("export", << <<"format", S("xml")>> >>),
               Task("export", << <<"file_path", N(1)>>,
                                 <<"format", S("xml")>> >>) }

\* valid tasks that fail on a table with rows: an operator outside op_map,
\* a sort field that is no column
EmptyInputProbes ==
    { Task("filter", << <<"condition", Condition("a", "~~", N(1))>> >>),
      Task("sort", << <<"operation",
                        D(<< <<"field", S("nonexistent")>> >>)>> >>) }

\* filter tasks over the columns a and b of the sample table and over a
\* column it does not have, with operators of op_map and one outside it
OperatorProbes ==
    { Task("filter", << <<"condition", Condition(c[1], c[2], c[3])>> >>) :
        c \in { <<"zz", "~~", N(1)>>, <<"zz", "==", N(1)>>,
                <<"b", "==", S("x")>>, <<"b", "!=", S("x")>>,
                <<"a", ">=", N(2)>>, <<"a", "<", N(2)>>, <<"a", "<=", N(0)>>,
                <<"a", "in", L(<<N(1), N(3)>>)>>,
                <<"a", "not in", L(<<N(1), N(3)>>)>> } }

\* model_call tasks over the numeric column a and the string column b, with
\* each provider and with the default and a chosen output_field
ProviderProbes ==
    { Task("model_call",
           << <<"prompt", S("Analyze:")>>, <<"input_field", S(f)>> >> \o rest) :
        f \in {"a", "b"},
        rest \in { <<>>,
                   << <<"output_field", S("analysis")>> >>,
                   << <<"provider", S("simulate")>> >>,
                   << <<"provider", S("openai")>> >>,
                   << <<"provider", S("anthropic")>>,
                      <<"output_field", S("analysis")>> >> } }

ProbeTasks ==
    AggregateProbes \cup UnknownKindProbes \cup NotAMappingProbes
        \cup NoTaskFieldProbes \cup KindNotAStringProbes \cup ModelCallProbes
        \cup FilterProbes \cup ExportProbes \cup EmptyInputProbes
        \cup ProviderProbes \cup OperatorProbes

\* Transform tasks that probe the rules of transform_task one by one.
Mapping(entries) == Task("transform", << <<"mapping", D(entries)>> >>)

ConcatOf(items) == D(<< <<"concat", L(items)>> >>)

TransformChain == Mapping(<< <<"b", S("a")>>, <<"c", S("b")>> >>)

TransformRenameBA == Mapping(<< <<"b", S("a")>> >>)

TransformRenameCB == Mapping(<< <<"c", S("b")>> >>)

\* test_string_concatenation
TransformDescription ==
    Mapping(<< <<"description",
                 ConcatOf(<<S("name"), S(" ("), S("age"),
                            S(" years old)")>>)>> >>)

\* null, a literal, and two names that are columns of some tables only
ConcatNullDashAgeA ==
    Mapping(<< <<"c", ConcatOf(<<NullV, S("-"), S("age"), S("a")>>)>> >>)

RenameThenMissing == Mapping(<< <<"c", S("a")>>, <<"d", S("zz")>> >>)

\* renames (a swap, a rename onto itself, chains, independent pairs in both
\* orders), a constant; concats of column a with a string that names no
\* column; concats with items that are no strings; mappings whose second
\* entry fails after the first was applied
TransformProbes ==
    { Mapping(<< <<"a", S("b")>>, <<"b", S("a")>> >>),
      Mapping(<< <<"a", S("a")>> >>),
      TransformChain,
      Mapping(<< <<"c", S("b")>>, <<"b", S("a")>> >>),
      TransformRenameBA, TransformRenameCB,
      Mapping(<< <<"c", S("a")>>, <<"d", S("b")>> >>),
      Mapping(<< <<"d", S("b")>>, <<"c", S("a")>> >>),
      Mapping(<< <<"c", N(5)>> >>),
      TransformDescription }
        \cup { Mapping(<< <<"c", ConcatOf(<<S("a"), S(item)>>)>> >>) :
                 item \in { "", "  ", "\t", "abc", "abcd", " word", "word ",
                            "\tword", "word\n", "(word", "word)", "wo-rd",
                            "wo:rd", "word_x", "years old" } }
        \cup { Mapping(<< <<"c", ConcatOf(<<S("a"), N(7), S("b")>>)>> >>),
               ConcatNullDashAgeA,
               Mapping(<< <<"c", ConcatOf(<<>>)>> >>) }
        \cup { RenameThenMissing,
               Mapping(<< <<"c", S("a")>>,
                          <<"d", ConcatOf(<<S("a"), S("nocolumn")>>)>> >>),
               Mapping(<< <<"c", S("a")>>,
                          <<"d", D(<< <<"upper", S("a")>> >>)>> >>),
               Mapping(<< <<"c", S("a")>>,
                          <<"d", D(<< <<"concat", S("a")>> >>)>> >>),
               Mapping(<< <<"d", S("zz")>>, <<"c", S("yy")>> >>) }

TransformPrograms ==
    {Program(L(<<t>>)) : t \in TransformProbes}
        \cup {Program(L(<<TransformRenameBA, TransformRenameCB>>))}

\* programs without a pipeline list
StructurePrograms ==
    { D(<< <<"invalid", S("structure")>> >>),
      D(<<>>),
      D(<< <<"tasks", L(<<FilterGt>>)>> >>),
      Program(S("filter")),
      Program(NullV),
      Program(N(1)),
      Program(FilterGt) }

Programs ==
    {Program(L(q)) : q \in Pipelines}
        \cup {Program(L(<<t>>)) : t \in ProbeTasks}
        \cup TransformPrograms
        \cup StructurePrograms

\* the caller's table: instance 0
SampleData ==
    Table(0, <<"a", "b">>,
          << [a |-> N(2), b |-> S("x")], [a |-> N(1), b |-> S("y")],
             [a |-> N(3), b |-> S("x")] >>)

\* a table with columns and no rows
EmptyData == Table(0, <<"a", "b">>, <<>>)

Inputs == {None, SampleData, EmptyData}

\* a table with the single column a
OnlyA == Table(0, <<"a">>, << [a |-> N(2)], [a |-> N(1)] >>)

\* the first row of the tests' sample_data, columns name and age
PeopleData ==
    Table(0, <<"name", "age">>, << [name |-> S("Alice"), age |-> N(25)] >>)

\* the tables execute is called with for a program
InputsOf(prog) ==
    IF prog \in TransformPrograms
    THEN {SampleData, EmptyData, OnlyA, PeopleData}
    ELSE Inputs

-----------------------------------------------------------------------------
(* AIONInterpreter (src/aion/core/interpreter.py).                         *)

ExecutionResult(d, l, e, plan) ==
    [data |-> d, logs |-> l, errors |-> e, execution_plan |-> plan]

\* the order of the set of required condition fields is not yet observed
Unobserved == <<>>

\* a variant that drops the path
ErrorStringsMessageOnly(ves) == [j \in DOMAIN ves |-> ves[j].message]

\* f"{e.path}: {e.message}" for each validation error
ErrorStrings(ves) ==
    [j \in DOMAIN ves |-> ves[j].path \o ": " \o ves[j].message]

\* program["pipeline"] of a validated program
PipelineOf(prog) == Get(prog, "pipeline").items

\* the task of the current loop iteration and its kind
CurTask == PipelineOf(program)[idx + 1]

CurType == Get(CurTask, "task").s

\* the log of a step without the number of steps
ExecutingLogNoTotal ==
    "Executing task " \o ToString(idx + 1) \o ": " \o CurType

ExecutingLog ==
    "Executing task " \o ToString(idx + 1) \o "/"
        \o ToString(Len(PipelineOf(program))) \o ": " \o CurType

\* a variant that always starts from an empty table
InitialDataAlwaysEmpty(input_data, fresh) == Table(fresh, <<>>, <<>>)

\* execute, lines 71-74: the table the loop starts with
InitialData(input_data, fresh) ==
    IF input_data = None THEN Table(fresh, <<>>, <<>>) ELSE input_data

\* a variant that logs nothing
ValidationPassedUnlogged(l) == l

\* execute, line 76
ValidationPassed(l) == Append(l, "Program validation passed")

\* a variant that leaves the kind out
FailureMessageNoKind(task_type, e) == "Task failed: " \o e

\* execute, line 108
FailureMessage(task_type, e) == "Task " \o task_type \o " failed: " \o e

\* execute, line 88
MissingHandlerMessage(task_type) ==
    "No handler registered for task type: " \o task_type

\* a variant that counts steps from 1
StepRecordOneBased(i, task_type, task, success) ==
    [task_index |-> i + 1, task_type |-> task_type, task_config |-> task,
     success |-> success]

\* execute, lines 98-103
StepRecord(i, task_type, task, success) ==
    [task_index |-> i, task_type |-> task_type, task_config |-> task,
     success |-> success]

\* execute, lines 112-118
FailedStepRecord(i, task_type, task, error) ==
    [task_index |-> i, task_type |-> task_type, task_config |-> task,
     success |-> FALSE, error |-> error]

\* one entry of the history of handler invocations
Invocation(i, h, arg, out) ==
    [index |-> i, handler |-> h, arg |-> arg, out |-> out]

Init ==
    /\ handlers = DefaultHandler
    /\ metadata = [k \in valid_task_types |-> <<>>]
    /\ reqOrder = Unobserved
    /\ pc = "idle"
    /\ program = None
    /\ input = None
    /\ data = None
    /\ logs = <<>>
    /\ errors = <<>>
    /\ execution_plan = <<>>
    /\ idx = 0
    /\ result = None
    /\ verrs = <<>>
    /\ calls = <<>>
    /\ files = {}
    /\ nextId = 1
    /\ runs = <<>>
    /\ other_handlers = DefaultHandler

\* a variant of register that keeps the handler a kind already has
RegisterKeepsFirst(task_type, handler) ==
    /\ pc = "idle"
    /\ handlers' = [k \in DOMAIN handlers \cup {task_type} |->
                       IF k \in DOMAIN handlers THEN handlers[k] ELSE handler]
    /\ metadata' = [k \in DOMAIN metadata \cup {task_type} |->
                       IF k = task_type THEN <<>> ELSE metadata[k]]
    /\ UNCHANGED <<runs, other_handlers>>
    /\ UNCHANGED <<reqOrder, pc, program, input, data, logs, errors,
                   execution_plan, idx, result, verrs, calls, files, nextId>>

\* TaskRegistry.register(task_type, handler), called without metadata
Register(task_type, handler) ==
    /\ pc = "idle"
    /\ handlers' = [k \in DOMAIN handlers \cup {task_type} |->
                       IF k = task_type THEN handler ELSE handlers[k]]
    /\ metadata' = [k \in DOMAIN metadata \cup {task_type} |->
                       IF k = task_type THEN <<>> ELSE metadata[k]]
    /\ UNCHANGED <<runs, other_handlers>>
    /\ UNCHANGED <<reqOrder, pc, program, input, data, logs, errors,
                   execution_plan, idx, result, verrs, calls, files, nextId>>

\* validate_program as this process computes it. The required condition
\* fields are iterated in one order per process; a run observes the order
\* only when the validator's answer depends on it.
ValidatorAnswers(prog) ==
    {<<order, validate_program(prog, order)>> : order \in RequiredFieldOrders}

\* execute, lines 58-79: validation; a rejected program returns at once,
\* an accepted one starts the loop
Execute(prog, input_data) ==
    /\ pc = "idle"
    /\ program' = prog
    /\ input' = input_data
    /\ LET answers == ValidatorAnswers(prog) IN
       \E answer \in answers :
         LET validation_errors == answer[2] IN
         /\ reqOrder \in {Unobserved, answer[1]}
         /\ reqOrder' = IF \E other \in answers : other[2] # validation_errors
                        THEN answer[1] ELSE reqOrder
         /\ verrs' = validation_errors
         /\ IF validation_errors # <<>>
            THEN /\ errors' = errors \o ErrorStrings(validation_errors)
                 /\ result' = ExecutionResult(None, logs, errors', <<>>)
                 /\ pc' = "done"
                 /\ UNCHANGED <<data, logs, idx, nextId>>
            ELSE /\ data' = InitialData(input_data, nextId)
                 /\ nextId' = nextId + 1
                 /\ logs' = ValidationPassed(logs)
                 /\ idx' = 0
                 /\ pc' = "loop"
                 /\ UNCHANGED <<errors, result>>
    /\ UNCHANGED <<runs, other_handlers>>
    /\ UNCHANGED <<handlers, metadata, execution_plan, calls, files>>

\* a variant of StepNoHandler that appends no error
StepNoHandlerSilent ==
    /\ pc = "loop"
    /\ idx < Len(PipelineOf(program))
    /\ get_handler(handlers, CurType) = None
    /\ LET error_msg == MissingHandlerMessage(CurType)
           logs2 == logs \o <<ExecutingLog, "ERROR: " \o error_msg>>
       IN /\ logs' = logs2
          /\ result' = ExecutionResult(data, logs2, errors, execution_plan)
    /\ pc' = "done"
    /\ UNCHANGED <<runs, other_handlers>>
    /\ UNCHANGED <<handlers, metadata, reqOrder, program, input, data, errors,
                   execution_plan, idx, verrs, calls, files, nextId>>

\* a variant of StepNoHandler that records the step as a failed one
StepNoHandlerRecorded ==
    /\ pc = "loop"
    /\ idx < Len(PipelineOf(program))
    /\ get_handler(handlers, CurType) = None
    /\ LET error_msg == MissingHandlerMessage(CurType)
           logs2 == logs \o <<ExecutingLog, "ERROR: " \o error_msg>>
           errors2 == Append(errors, error_msg)
           plan2 == Append(execution_plan,
                           FailedStepRecord(idx, CurType, CurTask, error_msg))
       IN /\ logs' = logs2
          /\ errors' = errors2
          /\ execution_plan' = plan2
          /\ result' = ExecutionResult(data, logs2, errors2, plan2)
    /\ pc' = "done"
    /\ UNCHANGED <<runs, other_handlers>>
    /\ UNCHANGED <<handlers, metadata, reqOrder, program, input, data, idx,
                   verrs, calls, files, nextId>>

\* execute, lines 80-91 and 121-126: no handler for the task's kind
StepNoHandler ==
    /\ pc = "loop"
    /\ idx < Len(PipelineOf(program))
    /\ get_handler(handlers, CurType) = None
    /\ LET error_msg == MissingHandlerMessage(CurType)
           logs2 == logs \o <<ExecutingLog, "ERROR: " \o error_msg>>
           errors2 == Append(errors, error_msg)
       IN /\ logs' = logs2
          /\ errors' = errors2
          /\ result' = ExecutionResult(data, logs2, errors2, execution_plan)
    /\ pc' = "done"
    /\ UNCHANGED <<runs, other_handlers>>
    /\ UNCHANGED <<handlers, metadata, reqOrder, program, input, data,
                   execution_plan, idx, verrs, calls, files, nextId>>

\* a variant of StepOk that leaves out data = result
StepOkStaleData ==
    /\ pc = "loop"
    /\ idx < Len(PipelineOf(program))
    /\ get_handler(handlers, CurType) # None
    /\ LET handler == get_handler(handlers, CurType)
           out == CallHandler(handler, data, CurTask, nextId)
       IN /\ out.ok
          /\ execution_plan' =
                 Append(execution_plan, StepRecord(idx, CurType, CurTask, TRUE))
          /\ logs' = logs \o <<ExecutingLog,
                               "Task " \o CurType \o " completed successfully">>
          /\ calls' = Append(calls, Invocation(idx, handler, data, out))
          /\ files' = files \cup out.wrote
    /\ idx' = idx + 1
    /\ nextId' = nextId + 1
    /\ UNCHANGED <<runs, other_handlers>>
    /\ UNCHANGED <<handlers, metadata, reqOrder, pc, program, input, data,
                   errors, result, verrs>>

\* a variant of StepOk that appends no StepRecord
StepOkUnrecorded ==
    /\ pc = "loop"
    /\ idx < Len(PipelineOf(program))
    /\ get_handler(handlers, CurType) # None
    /\ LET handler == get_handler(handlers, CurType)
           out == CallHandler(handler, data, CurTask, nextId)
       IN /\ out.ok
          /\ data' = out.table
          /\ logs' = logs \o <<ExecutingLog,
                               "Task " \o CurType \o " completed successfully">>
          /\ calls' = Append(calls, Invocation(idx, handler, data, out))
          /\ files' = files \cup out.wrote
    /\ idx' = idx + 1
    /\ nextId' = nextId + 1
    /\ UNCHANGED <<runs, other_handlers>>
    /\ UNCHANGED <<handlers, metadata, reqOrder, pc, program, input, errors,
                   execution_plan, result, verrs>>

\* a variant of StepOk that stays on the same task
StepOkRepeats ==
    /\ pc = "loop"
    /\ idx < Len(PipelineOf(program))
    /\ get_handler(handlers, CurType) # None
    /\ LET handler == get_handler(handlers, CurType)
           out == CallHandler(handler, data, CurTask, nextId)
       IN /\ out.ok
          /\ data' = out.table
          /\ execution_plan' =
                 Append(execution_plan, StepRecord(idx, CurType, CurTask, TRUE))
          /\ logs' = logs \o <<ExecutingLog,
                               "Task " \o CurType \o " completed successfully">>
          /\ calls' = Append(calls, Invocation(idx, handler, data, out))
          /\ files' = files \cup out.wrote
    /\ nextId' = nextId + 1
    /\ UNCHANGED <<runs, other_handlers>>
    /\ UNCHANGED <<handlers, metadata, reqOrder, pc, program, input,
                   errors, result, verrs, idx>>

\* a step that looks its handler up in the registry of the other interpreter
StepOkOtherRegistry ==
    /\ pc = "loop"
    /\ idx < Len(PipelineOf(program))
    /\ get_handler(other_handlers, CurType) # None
    /\ LET handler == get_handler(other_handlers, CurType)
           out == CallHandler(handler, data, CurTask, nextId)
       IN /\ out.ok
          /\ data' = out.table
          /\ execution_plan' =
                 Append(execution_plan, StepRecord(idx, CurType, CurTask, TRUE))
          /\ logs' = logs \o <<ExecutingLog,
                               "Task " \o CurType \o " completed successfully">>
          /\ calls' = Append(calls, Invocation(idx, handler, data, out))
          /\ files' = files \cup out.wrote
    /\ idx' = idx + 1
    /\ nextId' = nextId + 1
    /\ UNCHANGED <<runs, other_handlers>>
    /\ UNCHANGED <<handlers, metadata, reqOrder, pc, program, input,
                   errors, result, verrs>>

\* execute, lines 80-105: the handler returns
StepOk ==
    /\ pc = "loop"
    /\ idx < Len(PipelineOf(program))
    /\ get_handler(handlers, CurType) # None
    /\ LET handler == get_handler(handlers, CurType)
           out == CallHandler(handler, data, CurTask, nextId)
       IN /\ out.ok
          /\ data' = out.table
          /\ execution_plan' =
                 Append(execution_plan, StepRecord(idx, CurType, CurTask, TRUE))
          /\ logs' = logs \o <<ExecutingLog,
                               "Task " \o CurType \o " completed successfully">>
          /\ calls' = Append(calls, Invocation(idx, handler, data, out))
          /\ files' = files \cup out.wrote
    /\ idx' = idx + 1
    /\ nextId' = nextId + 1
    /\ UNCHANGED <<runs, other_handlers>>
    /\ UNCHANGED <<handlers, metadata, reqOrder, pc, program, input,
                   errors, result, verrs>>

\* a variant of StepFail that goes on with the next step
StepFailContinues ==
    /\ pc = "loop"
    /\ idx < Len(PipelineOf(program))
    /\ get_handler(handlers, CurType) # None
    /\ LET handler == get_handler(handlers, CurType)
           out == CallHandler(handler, data, CurTask, nextId)
           error_msg == FailureMessage(CurType, out.msg)
       IN /\ ~out.ok
          /\ errors' = Append(errors, error_msg)
          /\ logs' = logs \o <<ExecutingLog, "ERROR: " \o error_msg>>
          /\ execution_plan' =
                 Append(execution_plan,
                        FailedStepRecord(idx, CurType, CurTask, out.msg))
          /\ calls' = Append(calls, Invocation(idx, handler, data, out))
          /\ files' = files \cup out.wrote
    /\ idx' = idx + 1
    /\ nextId' = nextId + 1
    /\ UNCHANGED <<runs, other_handlers>>
    /\ UNCHANGED <<handlers, metadata, reqOrder, pc, program, input, data,
                   result, verrs>>

\* a failing step that undoes the files written by the run
StepFailRollsBack ==
    /\ pc = "loop"
    /\ idx < Len(PipelineOf(program))
    /\ get_handler(handlers, CurType) # None
    /\ LET handler == get_handler(handlers, CurType)
           out == CallHandler(handler, data, CurTask, nextId)
           error_msg == FailureMessage(CurType, out.msg)
           logs2 == logs \o <<ExecutingLog, "ERROR: " \o error_msg>>
           errors2 == Append(errors, error_msg)
           plan2 == Append(execution_plan,
                           FailedStepRecord(idx, CurType, CurTask, out.msg))
       IN /\ ~out.ok
          /\ errors' = errors2
          /\ logs' = logs2
          /\ execution_plan' = plan2
          /\ result' = ExecutionResult(data, logs2, errors2, plan2)
          /\ calls' = Append(calls, Invocation(idx, handler, data, out))
          /\ files' = {}
    /\ nextId' = nextId + 1
    /\ pc' = "done"
    /\ UNCHANGED <<runs, other_handlers>>
    /\ UNCHANGED <<handlers, metadata, reqOrder, program, input, data,
                   idx, verrs>>

\* execute, lines 80-94, 107-119 and 121-126: the handler raises
StepFail ==
    /\ pc = "loop"
    /\ idx < Len(PipelineOf(program))
    /\ get_handler(handlers, CurType) # None
    /\ LET handler == get_handler(handlers, CurType)
           out == CallHandler(handler, data, CurTask, nextId)
           error_msg == FailureMessage(CurType, out.msg)
           logs2 == logs \o <<ExecutingLog, "ERROR: " \o error_msg>>
           errors2 == Append(errors, error_msg)
           plan2 == Append(execution_plan,
                           FailedStepRecord(idx, CurType, CurTask, out.msg))
       IN /\ ~out.ok
          /\ errors' = errors2
          /\ logs' = logs2
          /\ execution_plan' = plan2
          /\ result' = ExecutionResult(data, logs2, errors2, plan2)
          /\ calls' = Append(calls, Invocation(idx, handler, data, out))
          /\ files' = files \cup out.wrote
    /\ nextId' = nextId + 1
    /\ pc' = "done"
    /\ UNCHANGED <<runs, other_handlers>>
    /\ UNCHANGED <<handlers, metadata, reqOrder, program, input, data,
                   idx, verrs>>

\* execute, lines 121-126: the loop is exhausted
ExecuteReturn ==
    /\ pc = "loop"
    /\ idx = Len(PipelineOf(program))
    /\ result' = ExecutionResult(data, logs, errors, execution_plan)
    /\ pc' = "done"
    /\ UNCHANGED <<runs, other_handlers>>
    /\ UNCHANGED <<handlers, metadata, reqOrder, program, input, data,
                   logs, errors, execution_plan, idx, verrs, calls, files,
                   nextId>>

Next ==
    \/ pc = "idle" /\ \E r \in Registrations : Register(r[1], r[2])
    \/ pc = "idle" /\ \E p \in Programs : \E t \in InputsOf(p) : Execute(p, t)
    \/ StepNoHandler
    \/ StepOk
    \/ StepFail
    \/ ExecuteReturn

Spec == Init /\ [][Next]_vars

-----------------------------------------------------------------------------
(* AIONInterpreter.explain (src/aion/core/interpreter.py).                 *)

UpperChar(c) ==
    CASE c = "a" -> "A" [] c = "b" -> "B" [] c = "c" -> "C" [] c = "d" -> "D"
      [] c = "e" -> "E" [] c = "f" -> "F" [] c = "g" -> "G" [] c = "h" -> "H"
      [] c = "i" -> "I" [] c = "j" -> "J" [] c = "k" -> "K" [] c = "l" -> "L"
      [] c = "m" -> "M" [] c = "n" -> "N" [] c = "o" -> "O" [] c = "p" -> "P"
      [] c = "q" -> "Q" [] c = "r" -> "R" [] c = "s" -> "S" [] c = "t" -> "T"
      [] c = "u" -> "U" [] c = "v" -> "V" [] c = "w" -> "W" [] c = "x" -> "X"
      [] c = "y" -> "Y" [] c = "z" -> "Z" [] OTHER -> c

\* str.upper()
Upper(s) == Concat([j \in 1..Len(s) |-> UpperChar(SubSeq(s, j, j))])

\* s[:n]
Prefix(s, n) == SubSeq(s, 1, IF Len(s) < n THEN Len(s) ELSE n)

\* the outcomes of explain and of its steps: the text, or the exception
\* types the statement can raise
Returned(text) == [ok |-> TRUE, text |-> text]

Raises(types) == [ok |-> FALSE, exc |-> types]

\* condition.get(key, "unknown") and its like, formatted into the line
Lookup(d, key, default) == Str(GetOr(d, key, S(default)))

\* the detail line of a filter task
ExplainFilter(task) ==
    LET condition == GetOr(task, "condition", D(<<>>))
    IN IF ~IsDict(condition) THEN Raises({"AttributeError"})
       ELSE Returned("   - Filters data where "
                         \o Lookup(condition, "field", "unknown") \o " "
                         \o Lookup(condition, "operator", "unknown") \o " "
                         \o Lookup(condition, "value", "unknown") \o "\n")

\* the detail line of a sort task
ExplainSort(task) ==
    LET operation == GetOr(task, "operation", D(<<>>))
    IN IF ~IsDict(operation) THEN Raises({"AttributeError"})
       ELSE Returned("   - Sorts data by "
                         \o Lookup(operation, "field", "unknown") \o " in "
                         \o Lookup(operation, "order", "asc")
                         \o "ending order\n")

\* the detail line of a transform task
ExplainTransform(task) ==
    LET mapping == GetOr(task, "mapping", D(<<>>))
    IN IF ~IsDict(mapping) THEN Raises({"AttributeError"})
       ELSE Returned("   - Transforms fields: "
                         \o Repr(L([j \in DOMAIN mapping.d |->
                                       S(mapping.d[j][1])]))
                         \o "\n")

\* the detail line of a model_call task; prompt[:50] is a slice of a string
\* or a list, a TypeError for a number or None, and for a dict a TypeError
\* or, where slices are hashable, a KeyError
ExplainModelCall(task) ==
    LET prompt == GetOr(task, "prompt", S("unknown"))
        line(text) == Returned("   - Calls AI model with prompt: "
                                   \o text \o "...\n")
    IN CASE IsStr(prompt) -> line(Prefix(prompt.s, 50))
         [] IsList(prompt) -> line(Repr(L(Prefix(prompt.items, 50))))
         [] IsDict(prompt) -> Raises({"TypeError", "KeyError"})
         [] OTHER -> Raises({"TypeError"})

\* one iteration of the loop over the pipeline: the text added for the
\* i-th element (i counts from 0)
ExplainTask(task, i) ==
    IF ~IsDict(task) THEN Raises({"TypeError"})
    ELSE IF ~Has(task, "task") THEN Raises({"KeyError"})
    ELSE LET task_type == Get(task, "task") IN
         IF ~IsStr(task_type) THEN Raises({"AttributeError"})
         ELSE LET header == ToString(i + 1) \o ". **" \o Upper(task_type.s)
                                \o "** task\n"
                  detail ==
                      CASE task_type.s = "filter" -> ExplainFilter(task)
                        [] task_type.s = "sort" -> ExplainSort(task)
                        [] task_type.s = "transform" -> ExplainTransform(task)
                        [] task_type.s = "model_call" -> ExplainModelCall(task)
                        [] OTHER -> Returned("")
              IN IF detail.ok THEN Returned(header \o detail.text \o "\n")
                 ELSE detail

\* what enumerate(pipeline) yields: the items of a list, the characters of
\* a string, the keys of a dict
Enumerated(pipeline) ==
    CASE IsList(pipeline) -> pipeline.items
      [] IsStr(pipeline) ->
             [j \in 1..Len(pipeline.s) |-> S(SubSeq(pipeline.s, j, j))]
      [] IsDict(pipeline) -> [j \in DOMAIN pipeline.d |-> S(pipeline.d[j][1])]

RECURSIVE ExplainTasks(_, _, _)
\* the loop of explain from element i on, explanation being the text so far
ExplainTasks(elements, i, explanation) ==
    IF i >= Len(elements) THEN Returned(explanation)
    ELSE LET step == ExplainTask(elements[i + 1], i)
         IN IF step.ok
            THEN ExplainTasks(elements, i + 1, explanation \o step.text)
            ELSE step

explain(prog) ==
    IF ~Has(prog, "pipeline")
    THEN Returned("Invalid program: missing pipeline")
    ELSE LET pipeline == Get(prog, "pipeline")
         IN IF pipeline.ty \in {"num", "null"} THEN Raises({"TypeError"})
            ELSE LET elements == Enumerated(pipeline)
                 IN ExplainTasks(elements, 0,
                        "This AION program contains "
                            \o ToString(Len(elements)) \o " tasks:\n\n")

\* a task of each kind with no other field
BareTask(kind) == Task(kind, <<>>)

\* test_explain_complex_program
ComplexProgram ==
    Program(L(<< Task("filter", << <<"condition",
                                     Condition("status", "==",
                                               S("active"))>> >>),
                 Task("sort", << <<"operation",
                                   D(<< <<"field", S("score")>>,
                                        <<"order", S("desc")>> >>)>> >>),
                 Task("transform", << <<"mapping",
                                        D(<< <<"user_id", S("id")>> >>)>> >>)
              >>))

ExplainedPrograms ==
    Programs \cup {Program(L(<<BareTask(k)>>)) : k \in valid_task_types}
        \cup {ComplexProgram}

\* a call of explain; its outcome is kept in result
Explain(prog) ==
    /\ pc = "idle"
    /\ program' = prog
    /\ result' = explain(prog)
    /\ pc' = "explained"
    /\ UNCHANGED <<runs, other_handlers>>
    /\ UNCHANGED <<handlers, metadata, reqOrder, input, data, logs, errors,
                   execution_plan, idx, verrs, calls, files, nextId>>

ExplainNext == \E p \in ExplainedPrograms : Explain(p)

ExplainSpec == Init /\ [][ExplainNext]_vars

-----------------------------------------------------------------------------
(* Several execute calls on one interpreter. execute keeps everything it   *)
(* builds in locals (logs, errors, execution_plan, data) and returns them  *)
(* in the ExecutionResult; the interpreter object holds only validator     *)
(* and registry. A later call starts from fresh locals.                    *)

\* the number of execute calls of one interpreter that are followed
MaxRuns == 3

\* a call that has returned: its arguments, the registry it ran with and
\* what it returned
Run(prog, input_data, reg, res) ==
    [program |-> prog, input |-> input_data, handlers |-> reg, result |-> res]

\* a return that leaves the logs of the call behind for the next one
ReturnKeepsLogs ==
    /\ pc = "done"
    /\ runs' = Append(runs, Run(program, input, handlers, result))
    /\ pc' = "idle"
    /\ program' = None
    /\ input' = None
    /\ data' = None
    /\ errors' = <<>>
    /\ execution_plan' = <<>>
    /\ idx' = 0
    /\ result' = None
    /\ verrs' = <<>>
    /\ calls' = <<>>
    /\ UNCHANGED <<handlers, metadata, reqOrder, logs, files, nextId,
                   other_handlers>>

\* execute has returned to its caller: the result is the caller's, the
\* locals of the call are gone, registry and file system stay
Return ==
    /\ pc = "done"
    /\ runs' = Append(runs, Run(program, input, handlers, result))
    /\ pc' = "idle"
    /\ program' = None
    /\ input' = None
    /\ data' = None
    /\ logs' = <<>>
    /\ errors' = <<>>
    /\ execution_plan' = <<>>
    /\ idx' = 0
    /\ result' = None
    /\ verrs' = <<>>
    /\ calls' = <<>>
    /\ UNCHANGED <<handlers, metadata, reqOrder, files, nextId,
                   other_handlers>>

\* the programs run again and again: one whose second step is dispatched
\* to whatever is registered for sort, one the validator rejects with
\* errors whose order depends on the set order, one that calls the
\* simulated model and writes a file
RerunPrograms ==
    { Program(L(<<FilterGt, SortDesc>>)), Program(L(<<FilterPartial>>)),
      Program(L(<<ModelCall, ExportCsv>>)) }

\* sort is overwritten by a handler that raises, and registered back
RerunRegistrations ==
    { <<"sort", Fn("custom_fail")>>, <<"sort", Fn("sort_task")>> }

RerunNext ==
    \/ pc = "idle" /\ \E r \in RerunRegistrations : Register(r[1], r[2])
    \/ /\ pc = "idle"
       /\ Len(runs) < MaxRuns
       /\ \E p \in RerunPrograms :
              \E t \in {None, SampleData} : Execute(p, t)
    \/ StepOk
    \/ StepFail
    \/ ExecuteReturn
    \/ Return

RerunSpec == Init /\ [][RerunNext]_vars

-----------------------------------------------------------------------------
(* The registry on its own: register calls with and without metadata, and  *)
(* the queries has_task, list_tasks and get_metadata.                      *)

\* TaskRegistry.has_task
has_task(reg, task_type) == task_type \in DOMAIN reg

\* TaskRegistry.list_tasks: the keys of _handlers (as a set: the model
\* keeps no insertion order of the kinds)
list_tasks(reg) == DOMAIN reg

\* TaskRegistry.get_metadata
get_metadata(meta, task_type) ==
    IF task_type \in DOMAIN meta THEN meta[task_type] ELSE <<>>

\* a metadata dict a caller passes
Described == D(<< <<"description", S("by the caller")>> >>)

\* a register that keeps the metadata of the kind when none is passed
RegisterWithKeepsMetadata(task_type, handler, md) ==
    /\ pc = "idle"
    /\ handlers' = [k \in DOMAIN handlers \cup {task_type} |->
                       IF k = task_type THEN handler ELSE handlers[k]]
    /\ metadata' = [k \in DOMAIN metadata \cup {task_type} |->
                       IF k = task_type
                       THEN IF md = None
                            THEN get_metadata(metadata, task_type) ELSE md.d
                       ELSE metadata[k]]
    /\ UNCHANGED <<runs, other_handlers>>
    /\ UNCHANGED <<reqOrder, pc, program, input, data, logs, errors,
                   execution_plan, idx, result, verrs, calls, files, nextId>>

\* TaskRegistry.register(task_type, handler, metadata): metadata or {}
RegisterWith(task_type, handler, md) ==
    /\ pc = "idle"
    /\ handlers' = [k \in DOMAIN handlers \cup {task_type} |->
                       IF k = task_type THEN handler ELSE handlers[k]]
    /\ metadata' = [k \in DOMAIN metadata \cup {task_type} |->
                       IF k = task_type
                       THEN IF md = None THEN <<>> ELSE md.d
                       ELSE metadata[k]]
    /\ UNCHANGED <<runs, other_handlers>>
    /\ UNCHANGED <<reqOrder, pc, program, input, data, logs, errors,
                   execution_plan, idx, result, verrs, calls, files, nextId>>

\* the register calls made, as <<task_type, handler, metadata>>: on three
\* default kinds and on a new kind; the handler that returns comes with
\* metadata, the handler that raises and None come without
MetadataRegistrations ==
    { <<k, IF md = None THEN h ELSE Fn("custom_ok"), md>> :
          k \in {"sort", "filter", "export", "foobar"},
          h \in {Fn("custom_fail"), None},
          md \in {None, Described} }

RegistryNext ==
    \E r \in MetadataRegistrations : RegisterWith(r[1], r[2], r[3])

RegistrySpec == Init /\ [][RegistryNext]_vars

-----------------------------------------------------------------------------
(* Two interpreters. Each AIONInterpreter builds its own TaskRegistry, and *)
(* each TaskRegistry its own dicts; handlers is the registry of the        *)
(* interpreter whose execute is followed, other_handlers the registry of   *)
(* a second one. A handler is any callable: one that holds a reference to  *)
(* its interpreter can register while execute is in its loop.              *)

\* register on the registry of the second interpreter
RegisterOther(task_type, handler) ==
    /\ pc \in {"idle", "loop"}
    /\ other_handlers' =
           [k \in DOMAIN other_handlers \cup {task_type} |->
               IF k = task_type THEN handler ELSE other_handlers[k]]
    /\ UNCHANGED <<handlers, metadata, reqOrder, pc, program, input, data,
                   logs, errors, execution_plan, idx, result, verrs, calls,
                   files, nextId, runs>>

\* a step dispatched to the caller's handler custom_registers: it returns
\* what custom_ok returns and, before that, registers custom_fail for sort
\* on the registry of the interpreter that runs it (TaskRegistry.register)
StepOkRegisters ==
    /\ pc = "loop"
    /\ idx < Len(PipelineOf(program))
    /\ get_handler(handlers, CurType) = Fn("custom_registers")
    /\ LET handler == get_handler(handlers, CurType)
           out == custom_ok(data, CurTask, nextId)
       IN /\ data' = out.table
          /\ execution_plan' =
                 Append(execution_plan, StepRecord(idx, CurType, CurTask, TRUE))
          /\ logs' = logs \o <<ExecutingLog,
                               "Task " \o CurType \o " completed successfully">>
          /\ calls' = Append(calls, Invocation(idx, handler, data, out))
          /\ files' = files \cup out.wrote
    /\ handlers' = [handlers EXCEPT !["sort"] = Fn("custom_fail")]
    /\ metadata' = [metadata EXCEPT !["sort"] = <<>>]
    /\ idx' = idx + 1
    /\ nextId' = nextId + 1
    /\ UNCHANGED <<runs, other_handlers>>
    /\ UNCHANGED <<reqOrder, pc, program, input, errors, result, verrs>>

\* the register calls on the second interpreter
OtherRegistrations ==
    { <<"sort", Fn("custom_fail")>>, <<"sort", Fn("custom_ok")>>,
      <<"filter", Fn("custom_fail")>> }

InterpretersNext ==
    \/ /\ pc = "idle"
       /\ \E r \in { <<"filter", Fn("custom_registers")>>,
                      <<"sort", Fn("custom_ok")>> } : Register(r[1], r[2])
    \/ \E r \in OtherRegistrations : RegisterOther(r[1], r[2])
    \/ /\ pc = "idle"
       /\ \E p \in { Program(L(<<FilterGt, SortDesc>>)),
                      Program(L(<<SortDesc, FilterGt>>)) } :
              Execute(p, SampleData)
    \/ /\ pc = "loop"
       /\ idx < Len(PipelineOf(program))
       /\ get_handler(handlers, CurType) # Fn("custom_registers")
       /\ StepOk
    \/ /\ pc = "loop"
       /\ idx < Len(PipelineOf(program))
       /\ get_handler(handlers, CurType) # Fn("custom_registers")
       /\ StepFail
    \/ StepOkRegisters
    \/ ExecuteReturn

InterpretersSpec == Init /\ [][InterpretersNext]_vars

-----------------------------------------------------------------------------
(* Properties of execute.                                                  *)

\* the kind of step i (0-based) of the validated program of this call
KindOf(i) == Get(PipelineOf(program)[i + 1], "task").s

\* the table the loop of this call started with
IsInitialData(t) ==
    IF input = None THEN t.cols = <<>> /\ t.rows = <<>> /\ t.id # 0
    ELSE t = input

\* C1: a program for which validate_program returns at least one error is
\* rejected: no handler is invoked, nothing is written, and the result has
\* data None, no logs, no execution plan, and as errors the strings
\* path + ": " + message of the validator's errors, in the validator's order.
C1_ValidationGate ==
    (pc # "idle"
       /\ \E o \in RequiredFieldOrders : validate_program(program, o) # <<>>)
    => /\ pc = "done"
       /\ calls = <<>>
       /\ files = {}
       /\ \E o \in RequiredFieldOrders : verrs = validate_program(program, o)
       /\ result.data = None
       /\ result.logs = <<>>
       /\ result.execution_plan = <<>>
       /\ result.errors =
              [j \in DOMAIN verrs |-> verrs[j].path \o ": " \o verrs[j].message]

\* a rejected run whose only defect is in the last task (two errors)
C1_Witness ==
    /\ pc = "done"
    /\ program = Program(L(<<FilterGt, FilterPartial>>))
    /\ input = SampleData
    /\ Len(verrs) = 2

\* C2: the execution plan holds at most one failed record, which is the
\* last one; no step is recorded or invoked after a failed step; and the
\* pipeline [filter on a missing field, sort] over a table with rows ends
\* with one record, the failed filter, without invoking the sort handler.
C2_FailFast ==
    /\ \A j \in DOMAIN execution_plan :
         ~execution_plan[j].success =>
             /\ j = Len(execution_plan)
             /\ \A k \in DOMAIN execution_plan :
                  execution_plan[k].task_index <= execution_plan[j].task_index
    /\ \A j \in DOMAIN calls :
         ~calls[j].out.ok => j = Len(calls) /\ pc = "done"
    /\ pc = "done" => result.execution_plan = execution_plan
    /\ (pc = "done" /\ program = Program(L(<<FilterMissing, SortDesc>>))
          /\ input = SampleData)
       => /\ Len(result.execution_plan) = 1
          /\ result.execution_plan[1].task_index = 0
          /\ result.execution_plan[1].task_type = "filter"
          /\ ~result.execution_plan[1].success
          /\ Contains(result.execution_plan[1].error, "not found in data")
          /\ \A j \in DOMAIN calls : calls[j].index # 1

\* the run of [filter on a missing field, sort] over the sample table
C2_Witness ==
    /\ pc = "done"
    /\ program = Program(L(<<FilterMissing, SortDesc>>))
    /\ input = SampleData
    /\ Len(calls) = 1
    /\ ~calls[1].out.ok

\* the run completed: every step had a handler that returned
Completed ==
    LET n == Len(PipelineOf(program)) IN
    /\ Len(result.execution_plan) = n
    /\ \A j \in 1..n : result.execution_plan[j].success
    /\ Len(calls) = n
    /\ \A j \in 1..n : calls[j].out.ok /\ calls[j].handler # None

\* C3: the returned errors are empty exactly when validation passed and
\* every one of the N steps had a handler that returned without raising
\* (N records, all successful).
C3_ErrorsEmptyIffCompleted ==
    pc = "done" => (result.errors = <<>> <=> (verrs = <<>> /\ Completed))

\* a completed run of two steps
C3_Witness ==
    /\ pc = "done"
    /\ result.errors = <<>>
    /\ Len(result.execution_plan) = 2

\* C4: the returned logs are non-empty exactly when validation passed: a
\* run that completed, or was aborted by a failing step or by a missing
\* handler, returns logs that start with "Program validation passed", and a
\* run rejected by validation returns an empty logs list.
C4_LogsPopulatedIffValidated ==
    pc = "done" =>
        /\ result.logs # <<>> <=> verrs = <<>>
        /\ verrs = <<>> => result.logs[1] = "Program validation passed"

\* a run aborted by a missing handler at its first step
C4_Witness ==
    /\ pc = "done"
    /\ verrs = <<>>
    /\ result.errors # <<>>
    /\ calls = <<>>
    /\ result.logs # <<>>

\* C4 as stated: the returned logs are non-empty whatever the outcome
C4_LogsAlwaysPopulated ==
    pc = "done" => result.logs # <<>>

\* C5: when the handler of step i raises, the run stops there: the step is
\* invoked once and never again, errors is exactly
\* "Task <kind> failed: <message>", the last plan record is the failed
\* record of step i carrying <message>, and the returned data is the table
\* that was passed to step i, which is the output of step i-1 or, for
\* i = 0, the table the loop started with.
C5_HandlerFailure ==
    \A j \in DOMAIN calls :
        ~calls[j].out.ok =>
            LET i == calls[j].index
                message == calls[j].out.msg
                plan == result.execution_plan
            IN /\ pc = "done"
               /\ j = Len(calls)
               /\ \A k \in DOMAIN calls : calls[k].index = i => k = j
               /\ result.errors =
                      <<"Task " \o KindOf(i) \o " failed: " \o message>>
               /\ Len(plan) = i + 1
               /\ plan[i + 1] =
                      [task_index |-> i, task_type |-> KindOf(i),
                       task_config |-> PipelineOf(program)[i + 1],
                       success |-> FALSE, error |-> message]
               /\ \A k \in 1..i : plan[k].task_index # i
               /\ result.data = calls[j].arg
               /\ IF i = 0 THEN IsInitialData(result.data)
                  ELSE /\ calls[j - 1].out.ok
                       /\ result.data = calls[j - 1].out.table

\* a run whose second step raises after the first changed the table
C5_Witness ==
    /\ pc = "done"
    /\ Len(calls) = 2
    /\ ~calls[2].out.ok
    /\ calls[2].arg # input
    /\ result.data = calls[1].out.table

\* C6: a run of the empty pipeline invokes nothing and returns no errors,
\* an empty plan and, as data, the input table itself when one is given and
\* a table without columns or rows when none is given.
C6_EmptyPipeline ==
    (pc = "done" /\ verrs = <<>> /\ PipelineOf(program) = <<>>)
    => /\ result.errors = <<>>
       /\ result.execution_plan = <<>>
       /\ calls = <<>>
       /\ input # None => result.data = input
       /\ input = None => result.data.cols = <<>> /\ result.data.rows = <<>>

\* the empty pipeline over the sample table
C6_Witness ==
    /\ pc = "done"
    /\ program = Program(L(<<>>))
    /\ input = SampleData
    /\ result.data = SampleData

\* C7: the execution plan is a prefix audit of the pipeline: its record at
\* position j (0-based) has task_index j, the kind of task j and task j
\* itself as configuration; it is never longer than the pipeline; every
\* record but the last is a success; and the returned plan is this plan.
C7_PrefixAudit ==
    /\ \A j \in DOMAIN execution_plan :
         /\ execution_plan[j].task_index = j - 1
         /\ execution_plan[j].task_type = KindOf(j - 1)
         /\ execution_plan[j].task_config = PipelineOf(program)[j]
         /\ j < Len(execution_plan) => execution_plan[j].success
    /\ IF pc # "idle" /\ verrs = <<>>
       THEN Len(execution_plan) <= Len(PipelineOf(program))
       ELSE execution_plan = <<>>
    /\ pc = "done" => result.execution_plan = execution_plan

\* a run with two records, the second a failure
C7_Witness ==
    /\ pc = "done"
    /\ Len(result.execution_plan) = 2
    /\ result.execution_plan[1].success
    /\ ~result.execution_plan[2].success

\* C8: handler invocations follow the pipeline: the j-th invocation is of
\* step j-1, with the handler registered for that step's kind; the first
\* receives the table the loop started with and every later one the table
\* its predecessor returned, the predecessor having returned without
\* raising; and a completed run returns what the last handler returned.
C8_DataChain ==
    /\ \A j \in DOMAIN calls :
         /\ calls[j].index = j - 1
         /\ calls[j].handler = get_handler(handlers, KindOf(j - 1))
         /\ IF j = 1 THEN IsInitialData(calls[j].arg)
            ELSE /\ calls[j - 1].out.ok
                 /\ calls[j].arg = calls[j - 1].out.table
    /\ pc = "loop" =>
         /\ Len(calls) = idx
         /\ calls # <<>> => data = calls[Len(calls)].out.table
    /\ (pc = "done" /\ verrs = <<>> /\ calls # <<>> /\ result.errors = <<>>)
       => result.data = calls[Len(calls)].out.table

\* a completed run of two steps, each of which changed the table
C8_Witness ==
    /\ pc = "done"
    /\ result.errors = <<>>
    /\ Len(calls) = 2
    /\ calls[1].out.table # calls[1].arg
    /\ calls[2].out.table # calls[2].arg
    /\ result.data = calls[2].out.table

\* C9: when the registry has no handler for the kind of step i of a
\* validated program, no step from i on is invoked or recorded, and the run
\* that reaches step i ends there with the single error
\* "No handler registered for task type: <kind>", that error as last log,
\* a plan of the i records before it, and as data the table before step i.
C9_MissingHandler ==
    (pc # "idle" /\ verrs = <<>>) =>
        \A i \in 0..(Len(PipelineOf(program)) - 1) :
            get_handler(handlers, KindOf(i)) = None =>
                LET error_msg ==
                        "No handler registered for task type: " \o KindOf(i)
                IN /\ idx <= i
                   /\ \A j \in DOMAIN calls : calls[j].index < i
                   /\ \A j \in DOMAIN execution_plan :
                        execution_plan[j].task_index < i
                   /\ (pc = "done" /\ idx = i) =>
                        /\ result.errors = <<error_msg>>
                        /\ Len(result.logs) = 2 * i + 3
                        /\ result.logs[2 * i + 3] = "ERROR: " \o error_msg
                        /\ result.execution_plan = execution_plan
                        /\ Len(result.execution_plan) = i
                        /\ Len(calls) = i
                        /\ IF i = 0 THEN IsInitialData(result.data)
                           ELSE result.data = calls[i].out.table

\* a filter that ran, followed by a sort whose handler is missing
C9_Witness ==
    /\ pc = "done"
    /\ program = Program(L(<<FilterGt, SortDesc>>))
    /\ input = SampleData
    /\ handlers["sort"] = None
    /\ Len(calls) = 1
    /\ Len(result.errors) = 1

\* the log line that announces step i (0-based) of this call's pipeline
ExecutingLogOf(i) ==
    "Executing task " \o ToString(i + 1) \o "/"
        \o ToString(Len(PipelineOf(program))) \o ": " \o KindOf(i)

\* the number of records of step i in a plan
RecordsOf(plan, i) ==
    Cardinality({j \in DOMAIN plan : plan[j].task_index = i})

\* C10: for every step i whose log "Executing task i+1/N: <kind>" was
\* appended, the plan holds exactly one record of step i when a handler is
\* registered for the step's kind, and none when there is no handler: the
\* step with the missing handler is logged but not recorded.
C10_AttemptedStepsRecorded ==
    (pc # "idle" /\ verrs = <<>>) =>
        \A i \in 0..(Len(PipelineOf(program)) - 1) :
            (\E k \in DOMAIN logs : logs[k] = ExecutingLogOf(i)) =>
                /\ RecordsOf(execution_plan, i) =
                       IF get_handler(handlers, KindOf(i)) = None
                       THEN 0 ELSE 1
                /\ pc = "done" => result.execution_plan = execution_plan
                /\ pc = "done" => result.logs = logs

\* a sort without handler as only step: logged, not recorded
C10_Witness ==
    /\ pc = "done"
    /\ program = Program(L(<<SortDesc>>))
    /\ input = SampleData
    /\ handlers["sort"] = None
    /\ \E k \in DOMAIN result.logs : result.logs[k] = ExecutingLogOf(0)
    /\ result.execution_plan = <<>>

\* C10 as stated: every step whose log "Executing task i+1/N: <kind>" was
\* appended has exactly one record in the plan
C10_EveryAttemptRecorded ==
    (pc = "done" /\ verrs = <<>>) =>
        \A i \in 0..(Len(PipelineOf(program)) - 1) :
            (\E k \in DOMAIN result.logs : result.logs[k] = ExecutingLogOf(i))
                => RecordsOf(result.execution_plan, i) = 1

\* the three ways an execute call ends
Rejected == verrs # <<>> /\ result.data = None /\ calls = <<>>

Aborted ==
    /\ verrs = <<>>
    /\ result.errors # <<>>
    /\ Len(result.execution_plan) <= Len(PipelineOf(program))
    /\ idx < Len(PipelineOf(program))

CompletedRun == verrs = <<>> /\ Completed

\* in the loop one of the four steps applies: the loop is exhausted, or the
\* registry has no handler for the task, or its handler returns or raises
LoopCanStep ==
    \/ idx = Len(PipelineOf(program))
    \/ /\ idx < Len(PipelineOf(program))
       /\ LET handler == get_handler(handlers, CurType) IN
          \/ handler = None
          \/ CallHandler(handler, data, CurTask, nextId).ok \in BOOLEAN

\* C11: an execute call is rejected at once or enters the loop, and it
\* enters the loop only when the validator returned no error; in the loop
\* a step can always be taken, and every step either returns or moves on to
\* the next of the N tasks after one more handler invocation, so the call
\* returns after at most N invocations; a returned call takes no further
\* step and is exactly one of rejected, completed and aborted.
C11_StateMachine ==
    /\ [](pc = "loop" =>
             /\ verrs = <<>>
             /\ \A o \in RequiredFieldOrders :
                    validate_program(program, o) = <<>>
             /\ LoopCanStep)
    /\ [][pc = "loop" =>
             (pc' = "done"
                 \/ (pc' = "loop" /\ idx' = idx + 1 /\ Len(calls') = idx'))]_vars
    /\ [](pc = "done" =>
             /\ Rejected \/ CompletedRun \/ Aborted
             /\ ~(Rejected /\ CompletedRun)
             /\ ~(Rejected /\ Aborted)
             /\ ~(CompletedRun /\ Aborted)
             /\ ~ENABLED <<Next>>_vars)
    /\ []((pc # "idle" /\ verrs = <<>>)
             => Len(calls) <= Len(PipelineOf(program)))

\* a completed run of two steps over a table without rows
C11_Witness ==
    /\ pc = "done"
    /\ input = EmptyData
    /\ CompletedRun
    /\ Len(calls) = 2

-----------------------------------------------------------------------------
(* Properties of validate_program.                                         *)

HasPrefix(s, p) == Len(s) >= Len(p) /\ SubSeq(s, 1, Len(p)) = p

\* the path of task i (0-based)
TaskPath(i) == "pipeline[" \o ToString(i) \o "]"

\* the errors of a list that are about task i
ErrorsOfTask(ves, i) ==
    SelectSeq(ves, LAMBDA e : HasPrefix(e.path, TaskPath(i)))

\* this call's program has a pipeline that is a list
HasPipelineList ==
    /\ pc # "idle"
    /\ Has(program, "pipeline")
    /\ IsList(Get(program, "pipeline"))

\* the errors of one task validated alone, as a pipeline of its own, with
\* their paths moved to position i
ValidatedAlone(task, i, order) ==
    LET alone == validate_program(Program(L(<<task>>)), order) IN
    [k \in DOMAIN alone |->
        ValidationError(
            TaskPath(i) \o SubSeq(alone[k].path, Len(TaskPath(0)) + 1,
                                  Len(alone[k].path)),
            alone[k].message)]

RECURSIVE Flatten(_)
Flatten(seqs) ==
    IF seqs = <<>> THEN <<>> ELSE Head(seqs) \o Flatten(Tail(seqs))

\* C12: for a pipeline that is a list, the validator's errors are the
\* errors of each task validated alone, concatenated in task order; so two
\* malformed tasks at positions i < j give an error about pipeline[i]
\* followed by an error about pipeline[j].
C12_NoShortCircuitAcrossTasks ==
    HasPipelineList =>
        LET pipeline == PipelineOf(program) IN
        /\ \E order \in RequiredFieldOrders :
             verrs = Flatten([j \in DOMAIN pipeline |->
                                 ValidatedAlone(pipeline[j], j - 1, order)])
        /\ \A i, j \in 0..(Len(pipeline) - 1) :
             (/\ i < j
              /\ \A order \in RequiredFieldOrders :
                   /\ ValidatedAlone(pipeline[i + 1], 0, order) # <<>>
                   /\ ValidatedAlone(pipeline[j + 1], 0, order) # <<>>)
             => \E k, l \in DOMAIN verrs :
                   /\ k < l
                   /\ HasPrefix(verrs[k].path, TaskPath(i))
                   /\ HasPrefix(verrs[l].path, TaskPath(j))

\* two malformed tasks: a condition with one subkey, then an unknown kind
C12_Witness ==
    /\ pc = "done"
    /\ program = Program(L(<<FilterPartial, UnknownKind>>))
    /\ Len(verrs) = 3
    /\ HasPrefix(verrs[2].path, TaskPath(0))
    /\ HasPrefix(verrs[3].path, TaskPath(1))

\* the kind of element i (0-based) of a pipeline list, when it has one
IsTaskOfKind(i, kind) ==
    LET task == PipelineOf(program)[i + 1] IN
    IsDict(task) /\ Has(task, "task") /\ Get(task, "task") = S(kind)

\* C13: validation is exhaustive within a task: an aggregate task whose
\* group_by is missing or not a list and whose aggregations is missing or
\* not an object gets an error at pipeline[i].group_by and an error at
\* pipeline[i].aggregations.
C13_ExhaustiveWithinTask ==
    HasPipelineList =>
        \A i \in 0..(Len(PipelineOf(program)) - 1) :
            LET task == PipelineOf(program)[i + 1] IN
            (/\ IsTaskOfKind(i, "aggregate")
             /\ ~Has(task, "group_by") \/ ~IsList(Get(task, "group_by"))
             /\ ~Has(task, "aggregations")
                    \/ ~IsDict(Get(task, "aggregations")))
            => /\ \E k \in DOMAIN verrs :
                     verrs[k].path = TaskPath(i) \o ".group_by"
               /\ \E k \in DOMAIN verrs :
                     verrs[k].path = TaskPath(i) \o ".aggregations"

\* C14: a program without pipeline field gets the single error at path
\* "root", a program whose pipeline is not a list the single error at path
\* "pipeline"; nothing inside the program is inspected, and execute returns
\* at once with that one error, whose text mentions pipeline.
C14_PipelineContainer ==
    (pc # "idle" /\ ~HasPipelineList) =>
        /\ Len(verrs) = 1
        /\ verrs[1].path =
               IF Has(program, "pipeline") THEN "pipeline" ELSE "root"
        /\ verrs[1].message =
               IF Has(program, "pipeline")
               THEN "Pipeline must be a list of tasks"
               ELSE "Program must contain a 'pipeline' field"
        /\ pc = "done"
        /\ calls = <<>>
        /\ result.execution_plan = <<>>
        /\ Len(result.errors) = 1
        /\ Contains(result.errors[1], "pipeline")

\* a program whose pipeline is a single task instead of a list of tasks
C14_Witness ==
    /\ pc = "done"
    /\ program = Program(FilterGt)
    /\ verrs[1].path = "pipeline"
    /\ Len(result.errors) = 1

\* element i (0-based) of the pipeline is a task whose kind is a string
\* outside the six kinds
HasUnknownKind(i) ==
    LET task == PipelineOf(program)[i + 1] IN
    /\ IsDict(task)
    /\ Has(task, "task")
    /\ IsStr(Get(task, "task"))
    /\ Get(task, "task").s \notin valid_task_types

\* C15: a task of unknown kind gets exactly one error, at pipeline[i].task,
\* whose message contains "Unknown task type", whatever fields it has; and
\* execute on the program returns an error with that message and an empty
\* execution plan, without invoking a handler.
C15_UnknownKind ==
    HasPipelineList =>
        \A i \in 0..(Len(PipelineOf(program)) - 1) :
            HasUnknownKind(i) =>
                LET task_errors == ErrorsOfTask(verrs, i) IN
                /\ Len(task_errors) = 1
                /\ task_errors[1].path = TaskPath(i) \o ".task"
                /\ Contains(task_errors[1].message, "Unknown task type")
                /\ pc = "done"
                /\ calls = <<>>
                /\ result.execution_plan = <<>>
                /\ \E k \in DOMAIN result.errors :
                     result.errors[k] =
                         TaskPath(i) \o ".task: " \o task_errors[1].message

\* a valid filter followed by a task of kind foobar, registered or not
C15_Witness ==
    /\ pc = "done"
    /\ program = Program(L(<<FilterGt, UnknownKind>>))
    /\ "foobar" \in DOMAIN handlers
    /\ Len(verrs) = 1
    /\ verrs[1].path = "pipeline[1].task"

\* C16: a pipeline element that is not a mapping gets the single error
\* "Task must be a dictionary" at pipeline[i]; a mapping without task field
\* the single error "Task must have a 'task' field" at pipeline[i].task; a
\* mapping whose task is not a string the single error "Task type must be
\* a string" at pipeline[i].task; no other error is about that element.
C16_ElementWithoutKind ==
    HasPipelineList =>
        \A i \in 0..(Len(PipelineOf(program)) - 1) :
            LET task == PipelineOf(program)[i + 1]
                task_errors == ErrorsOfTask(verrs, i)
            IN /\ ~IsDict(task) =>
                    task_errors =
                        <<ValidationError(TaskPath(i),
                                          "Task must be a dictionary")>>
               /\ (IsDict(task) /\ ~Has(task, "task")) =>
                    task_errors =
                        <<ValidationError(TaskPath(i) \o ".task",
                                          "Task must have a 'task' field")>>
               /\ (IsDict(task) /\ Has(task, "task")
                      /\ ~IsStr(Get(task, "task"))) =>
                    task_errors =
                        <<ValidationError(TaskPath(i) \o ".task",
                                          "Task type must be a string")>>

\* a mapping with a condition and a task that is None
C16_Witness ==
    /\ pc = "done"
    /\ program = Program(L(<< D(<< <<"task", NullV>>,
                                  <<"condition", S("a")>> >>) >>))
    /\ Len(verrs) = 1
    /\ verrs[1].message = "Task type must be a string"

\* C17: a model_call task passes validation only if its prompt is a
\* string: a model_call task whose prompt is present but is a number,
\* None, a list or an object gets a validation error.
C17_PromptMustBeString ==
    HasPipelineList =>
        \A i \in 0..(Len(PipelineOf(program)) - 1) :
            LET task == PipelineOf(program)[i + 1] IN
            (/\ IsTaskOfKind(i, "model_call")
             /\ Has(task, "prompt")
             /\ ~IsStr(Get(task, "prompt")))
            => ErrorsOfTask(verrs, i) # <<>>

\* C18: a filter task gets no error exactly when its condition is present,
\* is an object and holds field, operator and value; a missing condition
\* and a condition that is not an object get one error at
\* pipeline[i].condition; an object gets one error at
\* pipeline[i].condition.<subkey> for each subkey it lacks, and no other.
C18_FilterCondition ==
    HasPipelineList =>
        \A i \in 0..(Len(PipelineOf(program)) - 1) :
            IsTaskOfKind(i, "filter") =>
                LET task == PipelineOf(program)[i + 1]
                    task_errors == ErrorsOfTask(verrs, i)
                    missing ==
                        {k \in ConditionSubkeys :
                            ~Has(Get(task, "condition"), k)}
                IN /\ task_errors = <<>> <=>
                        /\ Has(task, "condition")
                        /\ IsDict(Get(task, "condition"))
                        /\ missing = {}
                   /\ ~Has(task, "condition") =>
                        /\ Len(task_errors) = 1
                        /\ task_errors[1].path = TaskPath(i) \o ".condition"
                   /\ (Has(task, "condition")
                          /\ ~IsDict(Get(task, "condition"))) =>
                        /\ Len(task_errors) = 1
                        /\ task_errors[1].path = TaskPath(i) \o ".condition"
                   /\ (Has(task, "condition")
                          /\ IsDict(Get(task, "condition"))) =>
                        /\ Len(task_errors) = Cardinality(missing)
                        /\ {task_errors[k].path : k \in DOMAIN task_errors} =
                               {TaskPath(i) \o ".condition." \o k :
                                   k \in missing}

\* a condition that holds the operator only: two errors
C18_Witness ==
    /\ pc = "done"
    /\ program =
           Program(L(<< Task("filter",
               << <<"condition", PartialCondition({"operator"})>> >>) >>))
    /\ Len(verrs) = 2

\* a format the validator is to accept: a string that is csv, json, excel
\* or parquet up to the case of its letters
IsExportFormat(v) ==
    IsStr(v) /\ Lower(v.s) \in {"csv", "json", "excel", "parquet"}

-----------------------------------------------------------------------------
(* Properties of the registry.                                             *)

\* the kinds looked up: those registered, one registered later and one
\* that is never registered
LookedUpKinds == DOMAIN handlers \cup {"foobar", "nokind"}

\* after register(task_type, handler): the kind has that handler and every
\* other kind the handler it had
Overwritten(task_type, handler) ==
    /\ get_handler(handlers', task_type) = handler
    /\ \A k \in LookedUpKinds \ {task_type} :
         get_handler(handlers', k) = get_handler(handlers, k)

\* C20: every register call succeeds, on a kind already registered too,
\* and leaves the kind with the handler it was passed and every other kind
\* with the handler it had; a lookup changes its answer only through such
\* a call; and a kind that was never registered has no handler (None).
C20_LastWriteWins ==
    /\ [](pc = "idle" =>
             \A r \in Registrations :
                 ENABLED (Register(r[1], r[2]) /\ Overwritten(r[1], r[2])))
    /\ [][handlers' # handlers =>
             \E r \in Registrations : Overwritten(r[1], r[2])]_vars
    /\ [](get_handler(handlers, "nokind") = None)
    /\ [](("foobar" \notin DOMAIN handlers)
             => get_handler(handlers, "foobar") = None)
    /\ get_handler(handlers, "foobar") = None

\* sort registered anew with a handler that raises, foobar registered too,
\* the other kinds as they were
C20_Witness ==
    /\ pc = "idle"
    /\ get_handler(handlers, "sort") = Fn("custom_fail")
    /\ get_handler(handlers, "foobar") = Fn("custom_ok")
    /\ get_handler(handlers, "filter") = Fn("filter_task")

-----------------------------------------------------------------------------
(* Properties of transform_task *)

\* the task the j-th handler call was made for
TaskOf(j) == PipelineOf(program)[calls[j].index + 1]

\* the handler calls that ran the built-in transform_task on a table with rows
TransformCalls ==
    { j \in DOMAIN calls :
        /\ calls[j].handler = Fn("transform_task")
        /\ ~IsEmpty(calls[j].arg) }

\* the (new_field, source) entries of the mapping of call j, in order
MappingOf(j) == Get(TaskOf(j), "mapping").d

NewFields(m) == {m[k][1] : k \in DOMAIN m}

\* the sources of the rename entries: the columns queued for removal
RenameSources(m) == {m[k][2].s : k \in {k \in DOMAIN m : IsStr(m[k][2])}}

\* C21: after the entries of a transform task were applied, the columns of
\* the result are the columns of the input and the new fields, without the
\* rename sources that are not a new field of the same task: a queued column
\* that some entry wrote is kept (swap a and b, or rename a to a).
C21_DropRule ==
    \A j \in TransformCalls :
        calls[j].out.ok =>
            LET m == MappingOf(j)
            IN Range(calls[j].out.table.cols)
                 = (Range(calls[j].arg.cols) \cup NewFields(m))
                       \ (RenameSources(m) \ NewFields(m))

\* every order of the entries of a mapping
EntryOrders(m) ==
    {p \in [DOMAIN m -> Range(m)] : Range(p) = Range(m)}

\* same columns and same value in every cell, whatever the column order
SameContent(t, u) == Range(t.cols) = Range(u.cols) /\ t.rows = u.rows

RenamesOf(m, t) ==
    {k \in DOMAIN m : IsStr(m[k][2]) /\ HasCol(t, m[k][2].s)}

\* C23: after a transform task, every rename of an existing column left
\* new_field with that column's values, and the source column is gone when
\* it is another name than new_field; b from a followed by c from b in two
\* tasks leaves c with a's values and neither a nor b.
C23_Rename ==
    /\ \A j \in TransformCalls :
         calls[j].out.ok =>
             LET m == MappingOf(j)
                 arg == calls[j].arg
                 res == calls[j].out.table
             IN \A k \in RenamesOf(m, arg) :
                    /\ HasCol(res, m[k][1])
                    /\ \A r \in DOMAIN arg.rows :
                           res.rows[r][m[k][1]] = arg.rows[r][m[k][2].s]
                    /\ m[k][1] # m[k][2].s => ~HasCol(res, m[k][2].s)
    /\ (pc = "done"
          /\ program = Program(L(<<TransformRenameBA, TransformRenameCB>>))
          /\ input = OnlyA)
       => /\ result.errors = <<>>
          /\ result.data.cols = <<"c">>
          /\ \A r \in DOMAIN OnlyA.rows :
                 result.data.rows[r]["c"] = OnlyA.rows[r]["a"]

\* the mapping has only concat entries with a list of items
OnlyConcat(m) ==
    \A k \in DOMAIN m :
        /\ IsDict(m[k][2])
        /\ Has(m[k][2], "concat")
        /\ IsList(Get(m[k][2], "concat"))

\* the string concat items of a mapping that name no column of table t,
\* in the order the validation loop meets them
ForeignItems(m, t) ==
    LET RECURSIVE Collect(_)
        Collect(k) ==
            IF k > Len(m) THEN <<>>
            ELSE SelectSeq(Get(m[k][2], "concat").items,
                           LAMBDA it : IsStr(it) /\ ~HasCol(t, it.s))
                     \o Collect(k + 1)
    IN Collect(1)

\* C24: a string concat item that names no column is accepted as a literal
\* exactly when it is empty or whitespace-only, or at most 3 long, or starts
\* or ends with a whitespace character of any kind, or contains one of
\* ( ) - : and any other such item fails the task with
\* "Field '<item>' not found in data"; the Alice example gives
\* "Alice (25 years old)".
C24_LiteralHeuristic ==
    LET Accepted(f) ==
            \/ \A c \in 1..Len(f) : SubSeq(f, c, c) \in Whitespace
            \/ Len(f) <= 3
            \/ SubSeq(f, 1, 1) \in Whitespace
            \/ SubSeq(f, Len(f), Len(f)) \in Whitespace
            \/ \E c \in 1..Len(f) : SubSeq(f, c, c) \in {"(", ")", "-", ":"}
    IN /\ \A j \in TransformCalls :
            OnlyConcat(MappingOf(j)) =>
                LET foreign == ForeignItems(MappingOf(j), calls[j].arg)
                    refused == SelectSeq(foreign,
                                         LAMBDA it : ~Accepted(it.s))
                IN IF refused = <<>> THEN calls[j].out.ok
                   ELSE /\ ~calls[j].out.ok
                        /\ calls[j].out.msg
                             = "Field '" \o refused[1].s
                                   \o "' not found in data"
       /\ (pc = "done" /\ program = Program(L(<<TransformDescription>>))
             /\ input = PeopleData)
          => /\ result.errors = <<>>
             /\ result.data.rows[1]["description"]
                  = S("Alice (25 years old)")

\* the concat entries of a mapping whose new column is in table t
ConcatsOf(m, t) ==
    {k \in DOMAIN m :
        /\ IsDict(m[k][2])
        /\ Has(m[k][2], "concat")
        /\ IsList(Get(m[k][2], "concat"))
        /\ HasCol(t, m[k][1])}

\* C25: in the column a concat entry builds, the value of each row is the
\* concatenation in list order of: for a string item naming a column of the
\* received table, that row's value as a string, even when the name would
\* pass as a literal; for another string item, the item; for an item that
\* is no string, its string form.
C25_ItemResolution ==
    /\ \A j \in TransformCalls :
         calls[j].out.ok =>
             LET m == MappingOf(j)
                 arg == calls[j].arg
                 res == calls[j].out.table
             IN \A k \in ConcatsOf(m, res) :
                    LET items == Get(m[k][2], "concat").items
                        RECURSIVE Joined(_, _)
                        Joined(n, r) ==
                            IF n = 0 THEN ""
                            ELSE Joined(n - 1, r) \o
                                 (IF ~IsStr(items[n]) THEN Str(items[n])
                                  ELSE IF items[n].s \in Range(arg.cols)
                                       THEN Str(arg.rows[r][items[n].s])
                                       ELSE items[n].s)
                    IN \A r \in DOMAIN arg.rows :
                           res.rows[r][m[k][1]] = S(Joined(Len(items), r))
    /\ (pc = "done" /\ program = Program(L(<<ConcatNullDashAgeA>>))
          /\ result.errors = <<>>)
       => CASE input = PeopleData ->
                 result.data.rows[1]["c"] = S("None-25a")
            [] input = SampleData ->
                 result.data.rows[1]["c"] = S("None-age2")
            [] input = OnlyA ->
                 result.data.rows[2]["c"] = S("None-age1")
            [] OTHER -> IsEmpty(result.data)

C25_Witness ==
    /\ pc = "done"
    /\ program = Program(L(<<ConcatNullDashAgeA>>))
    /\ input = PeopleData
    /\ result.errors = <<>>
    /\ is_literal("age")
    /\ HasCol(result.data, "c")

\* entry k of mapping m cannot be applied to table t
DefectiveEntry(m, k, t) ==
    LET source == m[k][2]
    IN \/ IsStr(source) /\ ~HasCol(t, source.s)
       \/ IsDict(source) /\ ~Has(source, "concat")
       \/ IsDict(source) /\ Has(source, "concat")
            /\ ~IsList(Get(source, "concat"))
       \/ IsDict(source) /\ Has(source, "concat")
            /\ IsList(Get(source, "concat"))
            /\ FirstRejected(t, Get(source, "concat").items) # 0

\* C26: when an entry of a transform task fails (missing rename source,
\* refused concat item, object without concat, concat that is no list) the
\* step fails as a whole: the run stops with the table the step received,
\* which has none of the task's new columns, one error and one failing
\* StepRecord for that step.
C26_AtomicOnFailure ==
    \A j \in TransformCalls :
        LET m == MappingOf(j)
            arg == calls[j].arg
        IN (\E k \in DOMAIN m : DefectiveEntry(m, k, arg)) =>
               /\ ~calls[j].out.ok
               /\ j = Len(calls)
               /\ pc = "done"
               /\ data = arg
               /\ result.data = arg
               /\ \A k \in DOMAIN m :
                      ~HasCol(arg, m[k][1]) => ~HasCol(result.data, m[k][1])
               /\ result.errors
                    = <<FailureMessage("transform", calls[j].out.msg)>>
               /\ execution_plan # <<>>
               /\ execution_plan[Len(execution_plan)]
                    = FailedStepRecord(calls[j].index, "transform",
                                       TaskOf(j), calls[j].out.msg)
               /\ \A n \in DOMAIN execution_plan :
                      ~execution_plan[n].success => n = Len(execution_plan)
               /\ result.execution_plan = execution_plan

C26_Witness ==
    /\ pc = "done"
    /\ program = Program(L(<<RenameThenMissing>>))
    /\ input = SampleData
    /\ Len(calls) = 1
    /\ ~DefectiveEntry(MappingOf(1), 1, calls[1].arg)
    /\ DefectiveEntry(MappingOf(1), 2, calls[1].arg)
    /\ result.data = SampleData
    /\ Len(result.errors) = 1

-----------------------------------------------------------------------------
(* Properties shared by the handlers *)

\* the kinds whose handler returns an empty table as it is
IdentityOnEmptyKinds == {"filter", "sort", "aggregate", "transform"}

\* the run used only built-in handlers of these kinds
OnlyIdentityOnEmptyKinds ==
    \A i \in 0..(Len(PipelineOf(program)) - 1) :
        /\ KindOf(i) \in IdentityOnEmptyKinds
        /\ get_handler(handlers, KindOf(i)) = DefaultHandler[KindOf(i)]

\* C27: the built-in filter, sort, aggregate and transform handlers return
\* an empty table as it is and succeed, whatever the task refers to; a valid
\* pipeline of these kinds run on an empty table completes without errors
\* and returns that table.
C27_IdentityOnEmpty ==
    /\ \A j \in DOMAIN calls :
         (calls[j].handler \in {DefaultHandler[k] : k \in IdentityOnEmptyKinds}
            /\ IsEmpty(calls[j].arg))
         => /\ calls[j].out.ok
            /\ calls[j].out.table = calls[j].arg
            /\ calls[j].out.wrote = {}
    /\ (pc = "done" /\ verrs = <<>> /\ OnlyIdentityOnEmptyKinds
          /\ (input = None \/ IsEmpty(input)))
       => /\ result.errors = <<>>
          /\ Len(calls) = Len(PipelineOf(program))
          /\ Len(execution_plan) = Len(PipelineOf(program))
          /\ IsInitialData(result.data)
          /\ IsEmpty(result.data)

C27_Witness ==
    /\ pc = "done"
    /\ program = Program(L(<<FilterMissing, TransformRename>>))
    /\ input = EmptyData
    /\ OnlyIdentityOnEmptyKinds
    /\ Len(calls) = 2
    /\ result.errors = <<>>
    /\ result.data = EmptyData

-----------------------------------------------------------------------------
(* Properties of explain *)

\* C28: explain returns a string for every program that has a pipeline
\* field, whatever its tasks are: a task without a task field, a kind that
\* is no string, a task that is no mapping, a filter whose condition is no
\* object, a model_call whose prompt is no string.
C28_ExplainNeverRaises ==
    (pc = "explained" /\ Has(program, "pipeline")) => result.ok

\* C29: for each task of one of the six kinds explain writes a header line
\* naming the kind and, after it, a detail line for that kind; the detail
\* line of a task without its kind-specific fields has the placeholder
\* "unknown" in their place.
C29_ExplainLines ==
    /\ (pc = "explained" /\ Has(program, "pipeline")
          /\ IsList(Get(program, "pipeline")) /\ result.ok)
       => LET tasks == Get(program, "pipeline").items
          IN \A i \in DOMAIN tasks :
                 Get(tasks[i], "task").s \in valid_task_types =>
                     Contains(result.text,
                              ToString(i) \o ". **"
                                  \o Upper(Get(tasks[i], "task").s)
                                  \o "** task\n   - ")
    /\ \A k \in valid_task_types :
         (pc = "explained" /\ program = Program(L(<<BareTask(k)>>)))
         => /\ result.ok
            /\ Contains(result.text,
                        "1. **" \o Upper(k) \o "** task\n   - ")
            /\ Contains(result.text, "unknown")

\* the handlers registered at construction
BuiltInHandlers == Range(DefaultHandler)

\* C30: every built-in handler that returns hands back a new table, never
\* the instance it received, so the data of a run without errors is not an
\* instance that was handed to one of its steps.
C30_CopyOnWriteHandoff ==
    /\ \A j \in DOMAIN calls :
         (calls[j].handler \in BuiltInHandlers /\ calls[j].out.ok)
         => calls[j].out.table.id # calls[j].arg.id
    /\ (pc = "done" /\ verrs = <<>> /\ result.errors = <<>>)
       => \A j \in DOMAIN calls :
              calls[j].handler \in BuiltInHandlers
                  => result.data.id # calls[j].arg.id

-----------------------------------------------------------------------------
(* Properties of the other handlers *)

\* C31: a model_call over an existing input_field succeeds; with the
\* default provider every row's output_field is "[AI: <prompt>] " followed
\* by the string form of the row's input value, and with a provider that
\* raises every row's output is a text starting with "[Error: ".
C31_ModelCallSimulate ==
    \A j \in DOMAIN calls :
        LET task == PipelineOf(program)[calls[j].index + 1]
            arg == calls[j].arg
            out == calls[j].out
            input_field == GetOr(task, "input_field", NullV)
            output_field == GetOr(task, "output_field", S("model_output")).s
            provider == GetOr(task, "provider", S("simulate"))
        IN (calls[j].handler = Fn("model_call_task") /\ ~IsEmpty(arg)
              /\ IsStr(input_field) /\ input_field.s \in Range(arg.cols))
           => /\ out.ok
              /\ Len(out.table.rows) = Len(arg.rows)
              /\ output_field \in Range(out.table.cols)
              /\ \A r \in DOMAIN arg.rows :
                     LET cell == out.table.rows[r][output_field].s
                     IN IF provider = S("simulate")
                        THEN cell = "[AI: " \o Get(task, "prompt").s \o "] "
                                        \o Str(arg.rows[r][input_field.s])
                        ELSE SubSeq(cell, 1, 8) = "[Error: "
              /\ \A c \in Range(arg.cols) \ {output_field} :
                     \A r \in DOMAIN arg.rows :
                         out.table.rows[r][c] = arg.rows[r][c]

C31_Witness ==
    /\ pc = "done"
    /\ Len(calls) = 1
    /\ calls[1].handler = Fn("model_call_task")
    /\ input = SampleData
    /\ GetOr(PipelineOf(program)[1], "input_field", NullV) = S("a")
    /\ ~Has(PipelineOf(program)[1], "provider")
    /\ result.errors = <<>>
    /\ HasCol(result.data, "analysis")
    /\ result.data.rows[1]["analysis"] = S("[AI: Analyze:] 2")

-----------------------------------------------------------------------------
(* Properties of the interpreter and its registry *)

\* C32: the six default kinds stay registered whatever is registered later,
\* a handler is only ever invoked for a task of one of the six kinds (a
\* handler registered under another kind is never invoked), and a run ends
\* in the missing-handler branch only for a kind whose registered handler
\* is None; while every registered handler is a function the branch is not
\* taken.
C32_MissingHandlerOnlyForNone ==
    /\ valid_task_types \subseteq DOMAIN handlers
    /\ \A j \in DOMAIN calls :
         /\ KindOf(calls[j].index) \in valid_task_types
         /\ calls[j].handler # None
    /\ (HasPipelineList /\ \E k \in DOMAIN handlers \ valid_task_types :
                             \E t \in Range(Get(program, "pipeline").items) :
                                 IsDict(t) /\ GetOr(t, "task", NullV) = S(k))
       => verrs # <<>> /\ calls = <<>>
    /\ (pc = "done" /\ verrs = <<>>) =>
         \A j \in DOMAIN result.errors :
             HasPrefix(result.errors[j], "No handler registered") =>
                 /\ idx < Len(PipelineOf(program))
                 /\ CurType \in DOMAIN handlers
                 /\ handlers[CurType] = None
                 /\ result.errors[j] = MissingHandlerMessage(CurType)

\* after three registrations a run dispatched to the overwriting handler
C32_Witness ==
    /\ pc = "done"
    /\ verrs = <<>>
    /\ "foobar" \in DOMAIN handlers
    /\ handlers["sort"] = Fn("custom_ok")
    /\ \E j \in DOMAIN calls : calls[j].handler = Fn("custom_ok")
    /\ result.errors = <<>>

\* C32 as stated: no run that passed validation ends in the missing-handler
\* branch.
C32_MissingHandlerUnreachable ==
    (pc = "done" /\ verrs = <<>>) =>
        \A j \in DOMAIN result.errors :
            ~HasPrefix(result.errors[j], "No handler registered")

\* C33: a run that passed validation has at most one error, and its logs
\* are "Program validation passed" followed, for each attempted step k in
\* order, by "Executing task k+1/N: <kind>" and then either "Task <kind>
\* completed successfully" or "ERROR: <the error>"; so there are
\* 1 + 2 * (attempted steps) logs and an ERROR log is the last one.
C33_LogShape ==
    (pc \in {"loop", "done"} /\ verrs = <<>>) =>
        LET attempted == (Len(logs) - 1) \div 2
        IN /\ Len(errors) <= 1
           /\ Len(logs) = 1 + 2 * attempted
           /\ attempted <= Len(PipelineOf(program))
           /\ logs[1] = "Program validation passed"
           /\ \A k \in 0..(attempted - 1) :
                /\ logs[2 * k + 2] = ExecutingLogOf(k)
                /\ \/ logs[2 * k + 3]
                        = "Task " \o KindOf(k) \o " completed successfully"
                   \/ /\ errors # <<>>
                      /\ logs[2 * k + 3] = "ERROR: " \o errors[1]
                      /\ k = attempted - 1
           /\ errors # <<>> =>
                /\ attempted >= 1
                /\ logs[Len(logs)] = "ERROR: " \o errors[1]
           /\ (pc = "done" /\ errors = <<>>) =>
                attempted = Len(PipelineOf(program))
           /\ pc = "loop" => attempted = idx /\ errors = <<>>
           /\ pc = "done" => result.logs = logs /\ result.errors = errors

C33_Witness ==
    /\ pc = "done"
    /\ verrs = <<>>
    /\ Len(calls) = 2
    /\ Len(result.errors) = 1
    /\ Len(result.logs) = 5
    /\ HasPrefix(result.logs[5], "ERROR: Task ")

\* C34: nothing is rolled back. The files written are at every moment those
\* written by the handler calls made so far and none is ever removed; a run
\* that fails at step k ends with the files of steps 0..k-1 written and with
\* the table step k-1 returned; a program rejected by validation makes no
\* call and writes no file, even with an export as its first task.
C34_NoRollback ==
    /\ [](/\ files = UNION {calls[j].out.wrote : j \in DOMAIN calls}
          /\ verrs # <<>> => (calls = <<>> /\ files = {} /\ data = None)
          /\ (pc = "done" /\ verrs = <<>> /\ result.errors # <<>>) =>
               /\ \A j \in DOMAIN calls :
                      calls[j].out.ok => calls[j].out.wrote \subseteq files
               /\ \A j \in DOMAIN calls :
                      (j < Len(calls) /\ ~calls[j + 1].out.ok) =>
                          result.data = calls[j].out.table
          /\ (pc = "done" /\ input = SampleData
                /\ program = Program(L(<<ExportCsv, FilterMissing>>))) =>
               /\ Len(result.errors) = 1
               /\ FileEntry("out/f.csv", "csv", SampleData) \in files
          /\ (pc = "done" /\ input = SampleData /\ result.errors # <<>>
                /\ handlers = DefaultHandler
                /\ program = Program(L(<<TransformRename, FilterMissing>>))) =>
               result.data.cols = <<"b", "c">>)
    /\ [][files \subseteq files'
            /\ Len(calls) <= Len(calls')
            /\ SubSeq(calls', 1, Len(calls)) = calls]_vars

C34_Witness ==
    /\ pc = "done"
    /\ input = SampleData
    /\ program = Program(L(<<ExportCsv, FilterMissing>>))
    /\ Len(calls) = 2
    /\ calls[1].out.wrote # {}
    /\ ~calls[2].out.ok
    /\ files = calls[1].out.wrote

\* C35: an aggregate task whose group_by is an empty list or whose
\* aggregations is an empty object passes validation; on a table with rows
\* it fails, the empty group_by being reported before the empty
\* aggregations and both before a field that is no column; on an empty
\* table it returns the table.
C35_AggregateEmptySpecs ==
    (HasPipelineList /\ Len(Get(program, "pipeline").items) = 1
       /\ IsDict(Get(program, "pipeline").items[1])
       /\ GetOr(Get(program, "pipeline").items[1], "task", NullV)
            = S("aggregate")
       /\ IsList(GetOr(Get(program, "pipeline").items[1], "group_by", NullV))
       /\ IsDict(GetOr(Get(program, "pipeline").items[1], "aggregations",
                       NullV)))
    => LET task == Get(program, "pipeline").items[1]
           no_group == Get(task, "group_by") = L(<<>>)
           no_aggs == Get(task, "aggregations") = D(<<>>)
           empty == input = None \/ IsEmpty(input)
       IN /\ verrs = <<>>
          /\ pc = "done" =>
               /\ Len(calls) = 1
               /\ empty => /\ result.errors = <<>>
                           /\ calls[1].out.table = calls[1].arg
                           /\ result.data = calls[1].arg
               /\ (~empty /\ no_group) =>
                      result.errors
                        = << "Task aggregate failed: Aggregate task must "
                               \o "specify 'group_by' fields" >>
               /\ (~empty /\ ~no_group /\ no_aggs) =>
                      result.errors
                        = << "Task aggregate failed: Aggregate task must "
                               \o "specify 'aggregations'" >>
               /\ (~empty /\ ~no_group /\ ~no_aggs /\ result.errors # <<>>) =>
                      Contains(result.errors[1], "not found in data")

C35_Witness ==
    /\ pc = "done"
    /\ verrs = <<>>
    /\ input = SampleData
    /\ program = Program(L(<<Task("aggregate",
                                  << <<"group_by", L(<<S("zz")>>)>>,
                                     <<"aggregations", D(<<>>)>> >>)>>))
    /\ Len(result.errors) = 1
    /\ Contains(result.errors[1], "must specify 'aggregations'")

\* two tables with the same columns and rows, or no table twice
SameData(d1, d2) ==
    IF d1 = None \/ d2 = None
    THEN d1 = d2
    ELSE d1.cols = d2.cols /\ d1.rows = d2.rows

\* the calls of the history that got the same program, the same input table
\* and the same registry
SameCall(a, b) ==
    /\ runs[a].program = runs[b].program
    /\ runs[a].input = runs[b].input
    /\ runs[a].handlers = runs[b].handlers

\* C36: execute keeps no state between runs and changes nothing but its
\* result. Two calls of the history with the same program, input table and
\* registered handlers returned equal data, logs, errors and execution_plan,
\* whatever was run or registered in between; and between the start of a
\* call and its return neither the registry nor the program changes.
C36_Stateless ==
    /\ [](\A a \in DOMAIN runs : \A b \in DOMAIN runs :
             SameCall(a, b) =>
                 /\ SameData(runs[a].result.data, runs[b].result.data)
                 /\ runs[a].result.logs = runs[b].result.logs
                 /\ runs[a].result.errors = runs[b].result.errors
                 /\ runs[a].result.execution_plan
                        = runs[b].result.execution_plan)
    /\ [][(pc # "idle" \/ pc' # "idle") =>
             (handlers' = handlers /\ metadata' = metadata)]_vars
    /\ [][pc = "loop" => program' = program]_vars

\* the first and the third call ran the two-step program on the caller's
\* table with the default registry and completed; the call in between ran
\* another program, and sort was overwritten and registered back meanwhile
C36_Witness ==
    /\ Len(runs) = 3
    /\ SameCall(1, 3)
    /\ runs[1].program = Program(L(<<FilterGt, SortDesc>>))
    /\ runs[1].input = SampleData
    /\ runs[1].handlers = DefaultHandler
    /\ runs[1].result.errors = <<>>
    /\ Len(runs[1].result.execution_plan) = 2
    /\ runs[2].program # runs[1].program
    /\ runs[2].handlers # DefaultHandler

-----------------------------------------------------------------------------
(* Properties of the registry *)

\* the step registered task_type: nothing else of the registry changed
OnlyChanged(task_type) ==
    /\ DOMAIN handlers' = DOMAIN handlers \cup {task_type}
    /\ DOMAIN metadata' = DOMAIN metadata \cup {task_type}
    /\ \A k \in DOMAIN handlers \ {task_type} :
           handlers'[k] = handlers[k] /\ metadata'[k] = metadata[k]

\* C37: after any sequence of register calls the kinds with a handler entry
\* are the kinds with a metadata entry; has_task(k) holds exactly when k is
\* in list_tasks(); a kind for which get_handler returns a handler has
\* has_task, and a registered kind for which get_handler returns None is
\* one registered with None as its handler; every register call changes the
\* entries of its own kind only and leaves as metadata the dict it was
\* given, the empty dict when it was given none.
C37_RegistryConsistent ==
    /\ [](DOMAIN handlers = DOMAIN metadata)
    /\ [](\A k \in LookedUpKinds :
             /\ has_task(handlers, k) <=> k \in list_tasks(handlers)
             /\ get_handler(handlers, k) # None => has_task(handlers, k)
             /\ (has_task(handlers, k) /\ get_handler(handlers, k) = None)
                    => handlers[k] = None
             /\ ~has_task(handlers, k) => get_metadata(metadata, k) = <<>>)
    /\ [][\E r \in MetadataRegistrations :
             /\ OnlyChanged(r[1])
             /\ handlers'[r[1]] = r[2]
             /\ get_metadata(metadata', r[1])
                    = (IF r[3] = None THEN <<>> ELSE r[3].d)]_vars
    /\ [][\A k \in DOMAIN metadata :
             (metadata[k] # <<>> /\ metadata'[k] # metadata[k])
                 => metadata'[k] = <<>>]_vars

\* sort was registered with metadata, filter registered anew and left
\* without, foobar added with a handler
C37_Witness ==
    /\ get_metadata(metadata, "sort") = Described.d
    /\ handlers["filter"] = Fn("custom_fail")
    /\ get_metadata(metadata, "filter") = <<>>
    /\ has_task(handlers, "foobar")
    /\ get_handler(handlers, "foobar") = Fn("custom_ok")

\* C37 as stated: has_task(k) exactly when get_handler(k) returns a handler
C37_HasTaskIffHandler ==
    \A k \in LookedUpKinds :
        has_task(handlers, k) <=> get_handler(handlers, k) # None

-----------------------------------------------------------------------------
(* Properties of two interpreters *)

\* C38: each interpreter owns its registry. A register call on the second
\* interpreter changes nothing of the followed one, whether its execute is
\* running or not; and every step of execute calls the handler that the
\* followed interpreter's own registry holds for the kind of the step when
\* the step starts, also when an earlier step of the same call registered
\* another handler for that kind.
C38_OwnRegistryPerStep ==
    /\ [][other_handlers' # other_handlers =>
             (handlers' = handlers /\ metadata' = metadata
                 /\ calls' = calls /\ data' = data /\ pc' = pc)]_vars
    /\ [][handlers' # handlers => other_handlers' = other_handlers]_vars
    /\ [][Len(calls') = Len(calls) + 1 =>
             /\ pc = "loop"
             /\ calls'[Len(calls')].index = idx
             /\ calls'[Len(calls')].handler = get_handler(handlers, CurType)
             /\ SubSeq(calls', 1, Len(calls)) = calls]_vars

\* the filter step registered custom_fail for sort, and the sort step that
\* followed was dispatched to it, while the second interpreter holds
\* custom_ok for sort and custom_fail for filter
C38_Witness ==
    /\ pc = "done"
    /\ Len(calls) = 2
    /\ calls[1].handler = Fn("custom_registers")
    /\ calls[2].handler = Fn("custom_fail")
    /\ other_handlers["sort"] = Fn("custom_ok")
    /\ other_handlers["filter"] = Fn("custom_fail")

-----------------------------------------------------------------------------
(* Properties of filter_task *)

\* the cell x satisfies the condition (op, value): the comparison the
\* operator stands for, on numbers and strings
Satisfies(x, op, value) ==
    CASE op = "==" -> x = value
      [] op = "!=" -> x # value
      [] op = ">" -> (x.ty = "num" /\ value.ty = "num" /\ x.n > value.n)
      [] op = ">=" -> (x.ty = "num" /\ value.ty = "num" /\ x.n >= value.n)
      [] op = "<" -> (x.ty = "num" /\ value.ty = "num" /\ x.n < value.n)
      [] op = "<=" -> (x.ty = "num" /\ value.ty = "num" /\ x.n <= value.n)
      [] op = "in" -> \E k \in DOMAIN value.items : value.items[k] = x
      [] op = "not in" -> \A k \in DOMAIN value.items : value.items[k] # x
      [] OTHER -> StrOpHolds(op, x.s, value.s)

\* C39: the built-in filter_task called with a table that has rows looks at
\* the operator before the field. An operator outside op_map fails with
\* "Unsupported operator: <op>", whether or not the field is a column; an
\* operator of op_map with a field that is no column fails with
\* "Field '<field>' not found in data"; and a call that succeeds returns
\* the columns of its input and exactly the rows that satisfy the
\* condition, in their order.
C39_FilterOperatorFirst ==
    \A j \in DOMAIN calls :
        (calls[j].handler = Fn("filter_task") /\ ~IsEmpty(calls[j].arg)) =>
            LET condition == Get(TaskOf(j), "condition")
                field == Get(condition, "field")
                op_str == Get(condition, "operator")
                value == Get(condition, "value")
                df == calls[j].arg
                out == calls[j].out
                kept(r) == Satisfies(r[field.s], op_str.s, value)
            IN (IsStr(field) /\ IsStr(op_str)) =>
                 /\ op_str.s \notin OpMapKeys =>
                        /\ ~out.ok
                        /\ out.msg = "Unsupported operator: " \o op_str.s
                 /\ (op_str.s \in OpMapKeys /\ ~HasCol(df, field.s)) =>
                        /\ ~out.ok
                        /\ out.msg = "Field '" \o field.s
                                         \o "' not found in data"
                 /\ out.ok =>
                        /\ out.table.cols = df.cols
                        /\ out.table.rows = SelectSeq(df.rows, kept)

\* the operator is outside op_map and the field is no column of the table:
\* the failure names the operator
C39_Witness ==
    /\ pc = "done"
    /\ Len(calls) = 1
    /\ calls[1].handler = Fn("filter_task")
    /\ calls[1].arg.rows # <<>>
    /\ TaskOf(1) = Task("filter", << <<"condition",
                                       Condition("zz", "~~", N(1))>> >>)
    /\ ~HasCol(calls[1].arg, "zz")
    /\ ~calls[1].out.ok
    /\ calls[1].out.msg = "Unsupported operator: ~~"
    /\ result.errors = <<FailureMessage("filter", "Unsupported operator: ~~")>>

=============================================================================
